---- MODULE Spec2Model ----
(***************************************************************************)
(* A model of the KQL query engine of data_analyzer (src/kql_engine.py):   *)
(* the query lexer, the argument and literal parser, the stage operators   *)
(* and the pipeline executor, over small concrete tables and query texts.  *)
(*                                                                         *)
(* Text is modelled by strings, character by character.  A cell value is a *)
(* tagged record [t, v]; a table is [cols, idx, rows]: the column names,   *)
(* the pandas index label of every row, and the rows (one value per        *)
(* column).                                                                *)
(***************************************************************************)
EXTENDS Integers, Sequences, FiniteSets, TLC

VARIABLES
    self_df,     \* self.df: the table the engine holds
    pc,          \* where execute_query stands: Ready, Running, Succeeded, Failed
    query,       \* the query text of the call
    operations,  \* the parsed operations of the call
    i,           \* the position in operations of the loop of line 38
    result,      \* the local result: the table the next stage receives
    returned,    \* what the call returned: [has, df]
    error,       \* the message of the ValueError the call raised, "" for none
    last,        \* the query and the outcome of the call before this one, when
                 \* that call had the query of this one
    ties,        \* how the quicksort of the build leaves rows with equal keys:
                 \* "kept" in their input order, or "reversed"
    data_store,  \* app.py's data_store: session id -> the stored session
    cookies,     \* session['session_id'] of every client, "" for none
    now,         \* datetime.now(), in whole seconds
    response     \* the response to the last request the application answered

(***************************************************************************)
(* Text helpers: what Python's str methods do, on strings.                 *)
(***************************************************************************)
Char(s, n) == SubSeq(s, n, n)

Whitespace == {" ", "\t", "\n"}

\* the least element of a non-empty finite set of integers
Least(S) == CHOOSE a \in S : \A b \in S : a <= b

Greatest(S) == CHOOSE a \in S : \A b \in S : a >= b

\* str.lstrip(), str.rstrip(), str.strip()
LStrip(s) ==
    LET keep == {k \in 1..Len(s) : Char(s, k) \notin Whitespace}
    IN  IF keep = {} THEN "" ELSE SubSeq(s, Least(keep), Len(s))

RStrip(s) ==
    LET keep == {k \in 1..Len(s) : Char(s, k) \notin Whitespace}
    IN  IF keep = {} THEN "" ELSE SubSeq(s, 1, Greatest(keep))

Strip(s) == RStrip(LStrip(s))

\* str.startswith / str.endswith
StartsWith(s, p) == Len(p) <= Len(s) /\ SubSeq(s, 1, Len(p)) = p

EndsWith(s, p) == Len(p) <= Len(s) /\ SubSeq(s, Len(s) - Len(p) + 1, Len(s)) = p

\* str.find, 1-based; 0 when sub does not occur in s
Find(s, sub) ==
    LET at == {k \in 1..(Len(s) - Len(sub) + 1) : SubSeq(s, k, k + Len(sub) - 1) = sub}
    IN  IF at = {} THEN 0 ELSE Least(at)

\* sub in s
Contains(s, sub) == \E k \in 1..(Len(s) - Len(sub) + 1) : SubSeq(s, k, k + Len(sub) - 1) = sub

\* s.split(sep): cut at every occurrence of sep, left to right
RECURSIVE Split(_, _)
Split(s, sep) ==
    LET k == Find(s, sep) IN
    IF k = 0 THEN <<s>>
    ELSE <<SubSeq(s, 1, k - 1)>> \o Split(SubSeq(s, k + Len(sep), Len(s)), sep)

\* s.split(sep, 1): cut at the first occurrence of sep only
Split1(s, sep) ==
    LET k == Find(s, sep) IN
    IF k = 0 THEN <<s>>
    ELSE <<SubSeq(s, 1, k - 1), SubSeq(s, k + Len(sep), Len(s))>>

UpperCase == "ABCDEFGHIJKLMNOPQRSTUVWXYZ"

LowerCase == "abcdefghijklmnopqrstuvwxyz"

Digits == "0123456789"

LowerChar(c) ==
    LET k == Find(UpperCase, c) IN IF k = 0 THEN c ELSE Char(LowerCase, k)

UpperChar(c) ==
    LET k == Find(LowerCase, c) IN IF k = 0 THEN c ELSE Char(UpperCase, k)

\* str.lower(), one half of the text after the other
RECURSIVE Lower(_)
Lower(s) ==
    IF Len(s) = 0 THEN ""
    ELSE IF Len(s) = 1 THEN LowerChar(s)
    ELSE Lower(SubSeq(s, 1, Len(s) \div 2)) \o Lower(SubSeq(s, (Len(s) \div 2) + 1, Len(s)))

\* str.upper()
RECURSIVE Upper(_)
Upper(s) ==
    IF Len(s) = 0 THEN ""
    ELSE IF Len(s) = 1 THEN UpperChar(s)
    ELSE Upper(SubSeq(s, 1, Len(s) \div 2)) \o Upper(SubSeq(s, (Len(s) \div 2) + 1, Len(s)))

IsDigit(c) == Contains(Digits, c)

\* a character matched by the regular expression \w
IsWordChar(c) == Contains(LowerCase, c) \/ Contains(UpperCase, c) \/ IsDigit(c) \/ c = "_"

AllDigits(s) == \A k \in 1..Len(s) : IsDigit(Char(s, k))

RECURSIVE DigitsValue(_)
DigitsValue(s) ==
    IF s = "" THEN 0
    ELSE 10 * DigitsValue(SubSeq(s, 1, Len(s) - 1)) + (Find(Digits, Char(s, Len(s))) - 1)

RECURSIVE NatToStr(_)
NatToStr(n) ==
    IF n < 10 THEN Char(Digits, n + 1) ELSE NatToStr(n \div 10) \o Char(Digits, (n % 10) + 1)

\* str(n) of an integer
IntToStr(n) == IF n < 0 THEN "-" \o NatToStr(0 - n) ELSE NatToStr(n)

\* the position of c among the characters of the model's cell texts, in code point order
CharRank(c) == Find(" 0123456789ABCDEFGHIJKLMNOPQRSTUVWXYZ_abcdefghijklmnopqrstuvwxyz", c)

\* a < b for Python strings: the first place where they differ decides, and a
\* proper prefix is less
StrLess(a, b) ==
    LET n == IF Len(a) < Len(b) THEN Len(a) ELSE Len(b)
        diff == {k \in 1..n : Char(a, k) # Char(b, k)}
    IN  IF diff = {} THEN Len(a) < Len(b)
        ELSE CharRank(Char(a, Least(diff))) < CharRank(Char(b, Least(diff)))

(***************************************************************************)
(* Values: Python's int, float, str, bool, None/NaN and list.  A float is  *)
(* the exact fraction v[1] / v[2] in lowest terms, v[2] > 0.               *)
(***************************************************************************)
IntV(n) == [t |-> "int", v |-> n]

StrV(s) == [t |-> "str", v |-> s]

BoolV(b) == [t |-> "bool", v |-> b]

ListV(l) == [t |-> "list", v |-> l]

NullV == [t |-> "null", v |-> 0]

Abs(n) == IF n < 0 THEN 0 - n ELSE n

RECURSIVE Gcd(_, _)
Gcd(a, b) == IF b = 0 THEN a ELSE Gcd(b, a % b)

FloatV(n, d) ==
    LET g == Gcd(Abs(n), d) IN [t |-> "float", v |-> <<n \div g, d \div g>>]

(***************************************************************************)
(* KQLEngine._parse_value: quoted string, number, boolean, list, raw text. *)
(***************************************************************************)
\* the text after an optional sign
Unsigned(s) == IF StartsWith(s, "+") \/ StartsWith(s, "-") THEN SubSeq(s, 2, Len(s)) ELSE s

Sign(s) == IF StartsWith(s, "-") THEN 0 - 1 ELSE 1

\* int(value) succeeds: an optional sign and decimal digits
IsIntText(s) == Unsigned(s) # "" /\ AllDigits(Unsigned(s))

\* float(value) succeeds, for a text with a '.': digits on at least one side of
\* one decimal point (exponents and inf/nan spellings are not among the model's texts)
IsFloatText(s) ==
    LET u == Unsigned(s)
        k == Find(u, ".")
        ip == SubSeq(u, 1, k - 1)
        fp == SubSeq(u, k + 1, Len(u))
    IN  k > 0 /\ AllDigits(ip) /\ AllDigits(fp) /\ (ip # "" \/ fp # "")

RECURSIVE Pow10(_)
Pow10(n) == IF n = 0 THEN 1 ELSE 10 * Pow10(n - 1)

FloatOfText(s) ==
    LET u == Unsigned(s)
        k == Find(u, ".")
        ip == SubSeq(u, 1, k - 1)
        fp == SubSeq(u, k + 1, Len(u))
    IN  FloatV(Sign(s) * (DigitsValue(ip) * Pow10(Len(fp)) + DigitsValue(fp)), Pow10(Len(fp)))

IsQuoted(value, q) == StartsWith(value, q) /\ EndsWith(value, q)

\* _parse_value with the items of a list kept as their text
_parse_valueRawItems(value) ==
    IF IsQuoted(value, "'") \/ IsQuoted(value, "\"") THEN StrV(SubSeq(value, 2, Len(value) - 1))
    ELSE IF Contains(value, ".") /\ IsFloatText(value) THEN FloatOfText(value)
    ELSE IF ~Contains(value, ".") /\ IsIntText(value) THEN IntV(Sign(value) * DigitsValue(Unsigned(value)))
    ELSE IF Lower(value) = "true" THEN BoolV(TRUE)
    ELSE IF Lower(value) = "false" THEN BoolV(FALSE)
    ELSE IF StartsWith(value, "(") /\ EndsWith(value, ")") THEN
        LET items == Split(SubSeq(value, 2, Len(value) - 1), ",")
        IN  ListV([k \in 1..Len(items) |-> StrV(Strip(items[k]))])
    ELSE StrV(value)

RECURSIVE _parse_value(_)
_parse_value(value) ==
    IF IsQuoted(value, "'") \/ IsQuoted(value, "\"") THEN StrV(SubSeq(value, 2, Len(value) - 1))
    ELSE IF Contains(value, ".") /\ IsFloatText(value) THEN FloatOfText(value)
    ELSE IF ~Contains(value, ".") /\ IsIntText(value) THEN IntV(Sign(value) * DigitsValue(Unsigned(value)))
    ELSE IF Lower(value) = "true" THEN BoolV(TRUE)
    ELSE IF Lower(value) = "false" THEN BoolV(FALSE)
    ELSE IF StartsWith(value, "(") /\ EndsWith(value, ")") THEN
        LET items == Split(SubSeq(value, 2, Len(value) - 1), ",")
        IN  ListV([k \in 1..Len(items) |-> _parse_value(Strip(items[k]))])
    ELSE StrV(value)

(***************************************************************************)
(* KQLEngine._parse_arguments: the tokens between the commas at            *)
(* parenthesis depth 0; a token with '=' is a keyword argument.            *)
(***************************************************************************)
\* paren_depth after the character at position i has been read (lines 93-96)
DepthAt(s, n) ==
    Cardinality({k \in 1..n : Char(s, k) = "("}) - Cardinality({k \in 1..n : Char(s, k) = ")"})

\* Boundaries with every comma closing a token, whatever the depth
BoundariesAnyDepth(s) == {k \in 1..Len(s) : Char(s, k) = ","}

\* the positions of the commas that close a token (line 98)
Boundaries(s) == {k \in 1..Len(s) : Char(s, k) = "," /\ DepthAt(s, k) = 0}

\* the tokens of lines 92-105 from position from on: one closed at each
\* boundary, and the rest of the text when it is not empty
RECURSIVE TokensFrom(_, _)
TokensFrom(s, from) ==
    LET later == {k \in Boundaries(s) : k >= from} IN
    IF later = {} THEN
        IF from <= Len(s) THEN <<Strip(SubSeq(s, from, Len(s)))>> ELSE <<>>
    ELSE <<Strip(SubSeq(s, from, Least(later) - 1))>> \o TokensFrom(s, Least(later) + 1)

Tokens(arg_string) == TokensFrom(arg_string, 1)

\* d[key] = value on a dict kept as a function
DictSet(d, key, value) == (key :> value) @@ d

EmptyDict == <<>>

RECURSIVE Classify(_, _, _, _)
Classify(tokens, k, args, kwargs) ==
    IF k > Len(tokens) THEN [args |-> args, kwargs |-> kwargs]
    ELSE IF Contains(tokens[k], "=") THEN
        LET kv == Split1(tokens[k], "=")
        IN  Classify(tokens, k + 1, args, DictSet(kwargs, Strip(kv[1]), _parse_value(Strip(kv[2]))))
    ELSE Classify(tokens, k + 1, Append(args, _parse_value(tokens[k])), kwargs)

_parse_arguments(arg_string) ==
    IF arg_string = "" THEN [args |-> <<>>, kwargs |-> EmptyDict]
    ELSE Classify(Tokens(arg_string), 1, <<>>, EmptyDict)

(***************************************************************************)
(* KQLEngine._parse_query: one operation per non-empty piece between '|'   *)
(* that starts with a word character.                                      *)
(***************************************************************************)
\* the length of the longest run of word characters at the start of s: (\w+)
WordLen(s) ==
    LET stop == {k \in 1..Len(s) : ~IsWordChar(Char(s, k))}
    IN  IF stop = {} THEN Len(s) ELSE Least(stop) - 1

\* what (.*) takes: the text up to the first line break
UpToNewline(s) == LET k == Find(s, "\n") IN IF k = 0 THEN s ELSE SubSeq(s, 1, k - 1)

RECURSIVE ParseParts(_, _)
ParseParts(parts, k) ==
    IF k > Len(parts) THEN <<>>
    ELSE
        LET part == Strip(parts[k])
            n == WordLen(part)
        IN  IF part = "" \/ n = 0 THEN ParseParts(parts, k + 1)
            ELSE
                LET func_name == Lower(SubSeq(part, 1, n))
                    arg_string == Strip(UpToNewline(LStrip(SubSeq(part, n + 1, Len(part)))))
                    parsed == _parse_arguments(arg_string)
                IN  <<[function |-> func_name, args |-> parsed.args, kwargs |-> parsed.kwargs]>>
                        \o ParseParts(parts, k + 1)

_parse_query(text) == ParseParts(Split(Strip(text), "|"), 1)

\* the arg_string of each operation of the query: lines 59-69
RECURSIVE ArgStringsFrom(_, _)
ArgStringsFrom(parts, k) ==
    IF k > Len(parts) THEN <<>>
    ELSE
        LET part == Strip(parts[k])
            n == WordLen(part)
        IN  IF part = "" \/ n = 0 THEN ArgStringsFrom(parts, k + 1)
            ELSE <<Strip(UpToNewline(LStrip(SubSeq(part, n + 1, Len(part)))))>>
                     \o ArgStringsFrom(parts, k + 1)

ArgStrings(text) == ArgStringsFrom(Split(Strip(text), "|"), 1)


(***************************************************************************)
(* Tables.  cols: the column names in order; idx: the index label of each  *)
(* row; rows: each row's values, one per column.  A stage ends with a      *)
(* table (Ok) or with an exception (Raise) carrying str(exception).        *)
(***************************************************************************)
NoTable == [cols |-> <<>>, idx |-> <<>>, rows |-> <<>>]

Ok(df) == [ok |-> TRUE, df |-> df, err |-> ""]

Raise(e) == [ok |-> FALSE, df |-> NoTable, err |-> e]

\* str(KeyError(key)) for a string key
KeyError(key) == "'" \o key \o "'"

NRows(df) == Len(df.rows)

\* pandas RangeIndex(n): the labels 0 .. n-1
RangeIndex(n) == [k \in 1..n |-> k - 1]

\* the positions of the columns called name, in order
RECURSIVE PositionsFrom(_, _, _)
PositionsFrom(cols, name, k) ==
    IF k > Len(cols) THEN <<>>
    ELSE (IF cols[k] = name THEN <<k>> ELSE <<>>) \o PositionsFrom(cols, name, k + 1)

Positions(cols, name) == PositionsFrom(cols, name, 1)

\* col in df.columns, for a parsed value col
InColumns(df, col) == col.t = "str" /\ \E k \in 1..Len(df.cols) : df.cols[k] = col.v

\* the cells of the (first) column called name: df[name]
Column(df, name) ==
    LET p == Positions(df.cols, name)[1] IN [k \in 1..NRows(df) |-> df.rows[k][p]]

\* the rows at the given positions, with their labels: df.iloc[keep]
TakeRows(df, keep) ==
    [cols |-> df.cols,
     idx  |-> [k \in 1..Len(keep) |-> df.idx[keep[k]]],
     rows |-> [k \in 1..Len(keep) |-> df.rows[keep[k]]]]

\* the columns at the given positions: df[[...]]
TakeCols(df, ps) ==
    [cols |-> [k \in 1..Len(ps) |-> df.cols[ps[k]]],
     idx  |-> df.idx,
     rows |-> [r \in 1..NRows(df) |-> [k \in 1..Len(ps) |-> df.rows[r][ps[k]]]]]

\* the positions 1..n at which keep holds, ascending
RECURSIVE FilterPos(_, _, _)
FilterPos(keep, k, n) ==
    IF k > n THEN <<>>
    ELSE (IF keep[k] THEN <<k>> ELSE <<>>) \o FilterPos(keep, k + 1, n)

\* the arguments with every list argument spliced in (columns.extend / append)
RECURSIVE Flatten(_)
Flatten(args) ==
    IF args = <<>> THEN <<>>
    ELSE (IF Head(args).t = "list" THEN Head(args).v ELSE <<Head(args)>>) \o Flatten(Tail(args))

(***************************************************************************)
(* Numbers and comparisons of a cell with a literal.                       *)
(***************************************************************************)
IsNum(x) == x.t \in {"int", "float", "bool"}

\* the fraction <<n, d>> a number stands for (True is 1, False is 0)
Num(x) ==
    IF x.t = "int" THEN <<x.v, 1>>
    ELSE IF x.t = "bool" THEN <<IF x.v THEN 1 ELSE 0, 1>>
    ELSE x.v

NumEq(a, b) == Num(a)[1] * Num(b)[2] = Num(b)[1] * Num(a)[2]

NumLess(a, b) == Num(a)[1] * Num(b)[2] < Num(b)[1] * Num(a)[2]

\* x == val for one cell
CellEq(x, val) ==
    IF IsNum(x) /\ IsNum(val) THEN NumEq(x, val)
    ELSE x.t = "str" /\ val.t = "str" /\ x.v = val.v

\* x < val is defined: both numbers or both strings
Ordered(x, val) == (IsNum(x) /\ IsNum(val)) \/ (x.t = "str" /\ val.t = "str")

CellLess(x, val) == IF IsNum(x) THEN NumLess(x, val) ELSE StrLess(x.v, val.v)

\* one cell compared with the literal: "T", "F", or "E" when Python raises
\* TypeError; a null cell compares False, and True under !=
CmpCell(op, x, val) ==
    LET b(p) == IF p THEN "T" ELSE "F" IN
    IF op = "=" THEN b(x.t # "null" /\ CellEq(x, val))
    ELSE IF op = "!=" THEN b(x.t = "null" \/ ~CellEq(x, val))
    ELSE IF x.t = "null" THEN "F"
    ELSE IF ~Ordered(x, val) THEN "E"
    ELSE IF op = ">=" THEN b(~CellLess(x, val))
    ELSE IF op = "<=" THEN b(~CellLess(val, x))
    ELSE IF op = ">" THEN b(CellLess(val, x))
    ELSE b(CellLess(x, val))

\* str(x) of a cell or literal: what astype(str) and str(val) give
RECURSIVE FracDigits(_, _, _)
FracDigits(r, d, n) ==
    IF r = 0 \/ n = 0 THEN ""
    ELSE Char(Digits, ((10 * r) \div d) + 1) \o FracDigits((10 * r) % d, d, n - 1)

\* repr of a float: exact when its decimal expansion ends within 16 digits,
\* cut after 16 fractional digits otherwise
FloatToStr(f) ==
    LET n == Abs(f[1])
        frac == FracDigits(n % f[2], f[2], 16)
    IN  (IF f[1] < 0 THEN "-" ELSE "") \o NatToStr(n \div f[2]) \o "."
            \o (IF frac = "" THEN "0" ELSE frac)

RECURSIVE ToStr(_)
ToStr(x) ==
    IF x.t = "str" THEN x.v
    ELSE IF x.t = "int" THEN IntToStr(x.v)
    ELSE IF x.t = "float" THEN FloatToStr(x.v)
    ELSE IF x.t = "bool" THEN (IF x.v THEN "True" ELSE "False")
    ELSE IF x.t = "null" THEN "nan"
    ELSE IF x.t = "sqrt" THEN "sqrt(" \o FloatToStr(x.v) \o ")"
    ELSE LET Repr(e) == IF e.t = "str" THEN "'" \o e.v \o "'" ELSE ToStr(e)
             Join[k \in 0..Len(x.v)] ==
                 IF k = 0 THEN ""
                 ELSE Join[k - 1] \o (IF k > 1 THEN ", " ELSE "") \o Repr(x.v[k])
         IN  "[" \o Join[Len(x.v)] \o "]"


(***************************************************************************)
(* KQLEngine._where.  The mask is a boolean Series: labels and values.     *)
(* An exception raised inside pandas is reported by its class name, a      *)
(* KeyError of a column lookup by its text, the quoted key.                *)
(***************************************************************************)
\* s.replace(a, b)
RECURSIVE Replace(_, _, _)
Replace(s, a, b) ==
    LET k == Find(s, a) IN
    IF k = 0 THEN s
    ELSE SubSeq(s, 1, k - 1) \o b \o Replace(SubSeq(s, k + Len(a), Len(s)), a, b)

\* CondKind with '>' and '<' looked for before '>=' and '<='
CondKindBareFirst(cond) ==
    IF Contains(cond, "=") /\ ~Contains(cond, "!=") /\ ~Contains(cond, ">=")
           /\ ~Contains(cond, "<=") THEN "="
    ELSE IF Contains(cond, "!=") THEN "!="
    ELSE IF Contains(cond, ">") THEN ">"
    ELSE IF Contains(cond, "<") THEN "<"
    ELSE IF Contains(cond, ">=") THEN ">="
    ELSE IF Contains(cond, "<=") THEN "<="
    ELSE IF Contains(cond, "contains") THEN "contains"
    ELSE IF Contains(cond, "startswith") THEN "startswith"
    ELSE IF Contains(cond, "endswith") THEN "endswith"
    ELSE ""

\* the branch of lines 164-216 a sub-condition takes: its marker, "" for none
CondKind(cond) ==
    IF Contains(cond, "=") /\ ~Contains(cond, "!=") /\ ~Contains(cond, ">=")
           /\ ~Contains(cond, "<=") THEN "="
    ELSE IF Contains(cond, "!=") THEN "!="
    ELSE IF Contains(cond, ">=") THEN ">="
    ELSE IF Contains(cond, "<=") THEN "<="
    ELSE IF Contains(cond, ">") THEN ">"
    ELSE IF Contains(cond, "<") THEN "<"
    ELSE IF Contains(cond, "contains") THEN "contains"
    ELSE IF Contains(cond, "startswith") THEN "startswith"
    ELSE IF Contains(cond, "endswith") THEN "endswith"
    ELSE ""

IsTextOp(op) == op \in {"contains", "startswith", "endswith"}

\* the text tests on one cell, after astype(str) and str(val); the pattern of
\* contains is taken literally (the model's patterns hold no regex operator)
TextTest(op, x, val) ==
    IF op = "contains" THEN Contains(Lower(ToStr(x)), Lower(ToStr(val)))
    ELSE IF op = "startswith" THEN StartsWith(ToStr(x), ToStr(val))
    ELSE EndsWith(ToStr(x), ToStr(val))

\* df[col] <op> val: [ok, vals] with one boolean per row, or the exception
ColumnTest(df, col, op, val) ==
    LET n == NRows(df)
        cells == Column(df, col)
        rhs(k) == IF val.t = "list" THEN val.v[k] ELSE val
        r == [k \in 1..n |-> CmpCell(op, cells[k], rhs(k))]
    IN  IF IsTextOp(op) THEN [ok |-> TRUE, vals |-> [k \in 1..n |-> TextTest(op, cells[k], val)], err |-> ""]
        ELSE IF val.t = "list" /\ Len(val.v) # n THEN [ok |-> FALSE, vals |-> <<>>, err |-> "ValueError"]
        ELSE IF \E k \in 1..n : r[k] = "E" THEN [ok |-> FALSE, vals |-> <<>>, err |-> "TypeError"]
        ELSE [ok |-> TRUE, vals |-> [k \in 1..n |-> r[k] = "T"], err |-> ""]

SeqToSet(q) == {q[k] : k \in 1..Len(q)}

HasDuplicates(q) == \E j, k \in 1..Len(q) : j < k /\ q[j] = q[k]

\* the elements of a finite set of integers, ascending
RECURSIVE SortedSeq(_)
SortedSeq(S) == IF S = {} THEN <<>> ELSE <<Least(S)>> \o SortedSeq(S \ {Least(S)})

\* the value a boolean Series has at label l; False where it has none
ValueAt(labels, vals, l) == \E k \in 1..Len(labels) : labels[k] = l /\ vals[k]

\* mask &= Series(vals, index=labels): position by position when the two
\* indexes are equal, else aligned on the union of the labels, a label
\* missing on one side counting as False
AndMask(mask, labels, vals) ==
    IF mask.labels = labels THEN
        [labels |-> labels, vals |-> [k \in 1..Len(labels) |-> mask.vals[k] /\ vals[k]]]
    ELSE
        LET u == SortedSeq(SeqToSet(mask.labels) \cup SeqToSet(labels))
        IN  [labels |-> u,
             vals |-> [k \in 1..Len(u) |-> ValueAt(mask.labels, mask.vals, u[k])
                                              /\ ValueAt(labels, vals, u[k])]]

\* one pass of the loop of line 161 over conditions[k..]: the mask, or the exception
RECURSIVE ApplyConds(_, _, _, _)
ApplyConds(df, conditions, k, mask) ==
    IF k > Len(conditions) THEN [ok |-> TRUE, mask |-> mask, err |-> ""]
    ELSE
        LET cond == Strip(conditions[k])
            op == CondKind(cond)
        IN  IF op = "" THEN ApplyConds(df, conditions, k + 1, mask)
            ELSE
                LET cv == Split1(cond, op)
                    col == Strip(cv[1])
                    val == _parse_value(Strip(cv[2]))
                IN  IF Positions(df.cols, col) = <<>> THEN
                        [ok |-> FALSE, mask |-> mask, err |-> KeyError(col)]
                    ELSE IF Len(Positions(df.cols, col)) > 1 THEN
                        \* df[col] is a DataFrame: the Series mask does not align with it
                        [ok |-> FALSE, mask |-> mask, err |-> "ValueError"]
                    ELSE
                        LET t == ColumnTest(df, col, op, val)
                        IN  IF ~t.ok THEN [ok |-> FALSE, mask |-> mask, err |-> t.err]
                            ELSE IF HasDuplicates(df.idx) THEN
                                \* the aligned mask is longer than the table
                                [ok |-> FALSE, mask |-> mask, err |-> "IndexingError"]
                            ELSE ApplyConds(df, conditions, k + 1, AndMask(mask, df.idx, t.vals))

\* df[mask]: the mask is looked up by the table's labels
SelectMask(df, mask) ==
    IF mask.labels = df.idx THEN Ok(TakeRows(df, FilterPos(mask.vals, 1, NRows(df))))
    ELSE IF \A k \in 1..NRows(df) : df.idx[k] \in SeqToSet(mask.labels) THEN
        Ok(TakeRows(df, FilterPos([k \in 1..NRows(df) |->
                                      ValueAt(mask.labels, mask.vals, df.idx[k])], 1, NRows(df))))
    ELSE Raise("IndexingError")

_where(df, args, kwargs) ==
    IF args = <<>> THEN Ok(df)
    ELSE IF args[1].t # "str" THEN Ok(df)
    ELSE
        LET condition == Replace(args[1].v, "==", "=")
            conditions == Split(condition, "and")
            n == NRows(df)
            m == ApplyConds(df, conditions, 1,
                            [labels |-> RangeIndex(n), vals |-> [k \in 1..n |-> TRUE]])
        IN  IF m.ok THEN SelectMask(df, m.mask) ELSE Raise(m.err)

(***************************************************************************)
(* KQLEngine._project, _take, _count, _join, _union.                       *)
(***************************************************************************)
\* the positions df[existing_cols] selects: for each name, every column so called
RECURSIVE SelectPositions(_, _)
SelectPositions(cols, names) ==
    IF names = <<>> THEN <<>>
    ELSE Positions(cols, Head(names)) \o SelectPositions(cols, Tail(names))

\* the entries of columns that are in df.columns
RECURSIVE Existing(_, _)
Existing(df, columns) ==
    IF columns = <<>> THEN <<>>
    ELSE (IF InColumns(df, Head(columns)) THEN <<Head(columns).v>> ELSE <<>>)
             \o Existing(df, Tail(columns))

\* _project keeping the existing columns in the order of the input table
\* instead of the order listed
_projectTableOrder(df, args, kwargs) ==
    IF args = <<>> THEN Ok(df)
    ELSE
        LET columns == Flatten(args)
            existing_cols == Existing(df, columns)
            kept == {k \in 1..Len(df.cols) : \E n \in 1..Len(existing_cols) : existing_cols[n] = df.cols[k]}
        IN  IF \E k \in 1..Len(columns) : columns[k].t = "list" THEN Raise("TypeError")
            ELSE IF existing_cols # <<>> THEN Ok(TakeCols(df, SortedSeq(kept)))
            ELSE Ok(df)

_project(df, args, kwargs) ==
    IF args = <<>> THEN Ok(df)
    ELSE
        LET columns == Flatten(args)
            existing_cols == Existing(df, columns)
        IN  IF \E k \in 1..Len(columns) : columns[k].t = "list" THEN Raise("TypeError")
            ELSE IF existing_cols # <<>> THEN Ok(TakeCols(df, SelectPositions(df.cols, existing_cols)))
            ELSE Ok(df)

\* int(x) of a parsed value: [ok, n]
ToInt(x) ==
    IF x.t = "int" THEN [ok |-> TRUE, n |-> x.v, err |-> ""]
    ELSE IF x.t = "bool" THEN [ok |-> TRUE, n |-> IF x.v THEN 1 ELSE 0, err |-> ""]
    ELSE IF x.t = "float" THEN
        [ok |-> TRUE, n |-> (IF x.v[1] < 0 THEN 0 - (Abs(x.v[1]) \div x.v[2]) ELSE x.v[1] \div x.v[2]), err |-> ""]
    ELSE IF x.t = "str" /\ IsIntText(Strip(x.v)) THEN
        [ok |-> TRUE, n |-> Sign(Strip(x.v)) * DigitsValue(Unsigned(Strip(x.v))), err |-> ""]
    ELSE IF x.t = "str" THEN [ok |-> FALSE, n |-> 0, err |-> "invalid literal for int() with base 10: '" \o x.v \o "'"]
    ELSE [ok |-> FALSE, n |-> 0, err |-> "TypeError"]

Min(a, b) == IF a < b THEN a ELSE b

Max(a, b) == IF a > b THEN a ELSE b

\* df.head(n): the first n rows, all but the last -n for a negative n
Head_(df, n) ==
    LET m == IF n >= 0 THEN Min(n, NRows(df)) ELSE Max(NRows(df) + n, 0)
    IN  TakeRows(df, [k \in 1..m |-> k])

_take(df, args, kwargs) ==
    IF args # <<>> THEN
        LET n == ToInt(args[1]) IN IF n.ok THEN Ok(Head_(df, n.n)) ELSE Raise(n.err)
    ELSE Ok(df)

_count(df, args, kwargs) ==
    Ok([cols |-> <<"count">>, idx |-> <<0>>, rows |-> <<<<IntV(NRows(df))>>>>])

_join(df, args, kwargs) == Ok(df)

_union(df, args, kwargs) == Ok(df)


(***************************************************************************)
(* KQLEngine._summarize: pandas groupby(...).agg(...).reset_index().       *)
(***************************************************************************)
\* a total order on group keys and sort keys: numbers before strings
ValLess(a, b) ==
    IF IsNum(a) /\ IsNum(b) THEN NumLess(a, b)
    ELSE IF IsNum(a) THEN b.t = "str"
    ELSE a.t = "str" /\ b.t = "str" /\ StrLess(a.v, b.v)

ValSame(a, b) == IF IsNum(a) /\ IsNum(b) THEN NumEq(a, b) ELSE a = b

\* tuples compared column by column, left to right
RECURSIVE TupleLess(_, _)
TupleLess(a, b) ==
    IF a = <<>> THEN FALSE
    ELSE IF ValLess(Head(a), Head(b)) THEN TRUE
    ELSE IF ValLess(Head(b), Head(a)) THEN FALSE
    ELSE TupleLess(Tail(a), Tail(b))

\* the tuples of a finite set, ascending
RECURSIVE SortedTuples(_)
SortedTuples(S) ==
    IF S = {} THEN <<>>
    ELSE LET m == CHOOSE a \in S : \A b \in S : ~TupleLess(b, a)
         IN  <<m>> \o SortedTuples(S \ {m})

FAdd(a, b) == <<a[1] * b[2] + b[1] * a[2], a[2] * b[2]>>

FMul(a, b) == <<a[1] * b[1], a[2] * b[2]>>

\* the sum of the numbers of a sequence of cells, as a fraction
RECURSIVE SumFrac(_)
SumFrac(cells) == IF cells = <<>> THEN <<0, 1>> ELSE FAdd(Num(Head(cells)), SumFrac(Tail(cells)))

RECURSIVE SumSquares(_)
SumSquares(cells) ==
    IF cells = <<>> THEN <<0, 1>>
    ELSE FAdd(FMul(Num(Head(cells)), Num(Head(cells))), SumSquares(Tail(cells)))

RECURSIVE Concat(_)
Concat(cells) == IF cells = <<>> THEN "" ELSE Head(cells).v \o Concat(Tail(cells))

\* the cells that are not null, in order
RECURSIVE NotNull(_)
NotNull(cells) ==
    IF cells = <<>> THEN <<>>
    ELSE (IF Head(cells).t = "null" THEN <<>> ELSE <<Head(cells)>>) \o NotNull(Tail(cells))

AllOf(cells, P(_)) == \A k \in 1..Len(cells) : P(cells[k])

IsStr(x) == x.t = "str"

IsIntCell(x) == x.t = "int"

\* the least (greatest, with least = FALSE) cell of a non-empty sequence
Extreme(cells, least) ==
    CHOOSE a \in SeqToSet(cells) :
        \A b \in SeqToSet(cells) : IF least THEN ~ValLess(b, a) ELSE ~ValLess(a, b)

\* the cells ascending (stable insertion into a sorted sequence)
RECURSIVE SortCells(_)
SortCells(cells) ==
    IF cells = <<>> THEN <<>>
    ELSE LET m == Extreme(cells, TRUE)
             k == CHOOSE j \in 1..Len(cells) : cells[j] = m
         IN  <<m>> \o SortCells(SubSeq(cells, 1, k - 1) \o SubSeq(cells, k + 1, Len(cells)))

\* one aggregate over the cells of a group: [ok, v] or the exception
AggValue(fn, all) ==
    LET cells == NotNull(all)
        n == Len(cells)
        val(v) == [ok |-> TRUE, v |-> v, err |-> ""]
        fail == [ok |-> FALSE, v |-> NullV, err |-> "TypeError"]
        num == AllOf(cells, IsNum)
        sum == SumFrac(cells)
    IN  IF fn = "size" THEN val(IntV(Len(all)))
        ELSE IF fn = "nunique" THEN val(IntV(Cardinality(SeqToSet(cells))))
        ELSE IF fn = "sum" THEN
            IF num THEN val(IF AllOf(all, IsIntCell) THEN IntV(sum[1] \div sum[2]) ELSE FloatV(sum[1], sum[2]))
            ELSE IF AllOf(cells, IsStr) THEN val(StrV(Concat(cells)))
            ELSE fail
        ELSE IF fn \in {"min", "max"} THEN
            IF n = 0 THEN val(NullV)
            ELSE IF num \/ AllOf(cells, IsStr) THEN val(Extreme(cells, fn = "min"))
            ELSE fail
        ELSE IF ~num THEN fail
        ELSE IF fn = "mean" THEN
            IF n = 0 THEN val(NullV) ELSE val(FloatV(sum[1], sum[2] * n))
        ELSE IF fn = "median" THEN
            IF n = 0 THEN val(NullV)
            ELSE LET q == SortCells(cells)
                     mid == FAdd(Num(q[(n + 1) \div 2]), Num(q[(n + 2) \div 2]))
                 IN  val(FloatV(mid[1], mid[2] * 2))
        ELSE \* std: the square root of the sample variance, kept as that variance
            IF n < 2 THEN val(NullV)
            ELSE LET sq == SumSquares(cells)
                     \* (sum of squares - sum^2 / n) / (n - 1)
                     top == FAdd(sq, <<0 - (sum[1] * sum[1]), sum[2] * sum[2] * n>>)
                 IN  val([t |-> "sqrt", v |-> FloatV(top[1], top[2] * (n - 1)).v])

\* agg_dict[result_col] = (column, aggfunc), agg_dict kept in insertion order
AggSet(agg_dict, result_col, column, aggfunc) ==
    LET e == [res |-> result_col, src |-> column, fn |-> aggfunc] IN
    IF \E k \in 1..Len(agg_dict) : agg_dict[k].res = result_col
    THEN [k \in 1..Len(agg_dict) |-> IF agg_dict[k].res = result_col THEN e ELSE agg_dict[k]]
    ELSE Append(agg_dict, e)

AggFuncs == {"sum", "mean", "min", "max", "std", "median"}

\* the loop of lines 232-251 over exprs[k..]: agg_dict and group_by
RECURSIVE ParseAgg(_, _, _, _)
ParseAgg(exprs, k, agg_dict, group_by) ==
    IF k > Len(exprs) THEN [agg_dict |-> agg_dict, group_by |-> group_by]
    ELSE
        LET expr == Strip(exprs[k]) IN
        IF Contains(expr, "=") THEN
            LET rf == Split1(expr, "=")
                result_col == Strip(rf[1])
                func_expr == rf[2]
            IN  IF Contains(func_expr, "(") /\ Contains(func_expr, ")") THEN
                    LET func_name == Strip(Split(func_expr, "(")[1])
                        source_col == Strip(Split(Split(func_expr, "(")[2], ")")[1])
                    IN  IF func_name = "count" THEN
                            ParseAgg(exprs, k + 1, AggSet(agg_dict, result_col, source_col, "size"), group_by)
                        ELSE IF func_name \in AggFuncs THEN
                            ParseAgg(exprs, k + 1, AggSet(agg_dict, result_col, source_col, func_name), group_by)
                        ELSE IF func_name = "dcount" THEN
                            ParseAgg(exprs, k + 1, AggSet(agg_dict, result_col, source_col, "nunique"), group_by)
                        ELSE ParseAgg(exprs, k + 1, agg_dict, group_by)
                ELSE ParseAgg(exprs, k + 1, agg_dict, group_by)
        ELSE ParseAgg(exprs, k + 1, agg_dict, Append(group_by, expr))

\* select_dtypes(include=[np.number]): the columns whose cells are all int,
\* float or null (a column's dtype is read off its cells)
IsNumericCell(x) == x.t \in {"int", "float", "null"}

RECURSIVE NumericAggs(_, _)
NumericAggs(df, k) ==
    IF k > Len(df.cols) THEN <<>>
    ELSE (IF \A r \in 1..NRows(df) : IsNumericCell(df.rows[r][k])
          THEN <<[res |-> df.cols[k], src |-> df.cols[k], fn |-> "mean"]>> ELSE <<>>)
             \o NumericAggs(df, k + 1)

\* the rows (positions, ascending) whose key is key
GroupRows(keys, key) == FilterPos([r \in 1..Len(keys) |-> keys[r] = key], 1, Len(keys))

\* df.groupby(group_by).agg(**agg_dict).reset_index(): one row per key present
\* (a row with a null key is in no group), the keys ascending, the key columns first
GroupAgg(df, group_by, agg_dict) ==
    LET n == NRows(df)
        gpos == [k \in 1..Len(group_by) |-> Positions(df.cols, group_by[k])[1]]
        keys == [r \in 1..n |-> [k \in 1..Len(group_by) |-> df.rows[r][gpos[k]]]]
        present == {keys[r] : r \in {r \in 1..n : \A k \in 1..Len(group_by) : keys[r][k].t # "null"}}
        order == SortedTuples(present)
        cell(g, a) == AggValue(agg_dict[a].fn,
                               LET rs == GroupRows(keys, order[g])
                                   p == Positions(df.cols, agg_dict[a].src)[1]
                               IN  [j \in 1..Len(rs) |-> df.rows[rs[j]][p]])
    IN  IF \E g \in 1..Len(order), a \in 1..Len(agg_dict) : ~cell(g, a).ok THEN Raise("TypeError")
        ELSE Ok([cols |-> group_by \o [a \in 1..Len(agg_dict) |-> agg_dict[a].res],
                 idx  |-> RangeIndex(Len(order)),
                 rows |-> [g \in 1..Len(order) |->
                              order[g] \o [a \in 1..Len(agg_dict) |-> cell(g, a).v]]])

_summarize(df, args, kwargs) ==
    IF args = <<>> THEN Ok(df)
    ELSE IF args[1].t # "str" THEN Raise("AttributeError")
    ELSE
        LET parsed == ParseAgg(Split(args[1].v, ","), 1, <<>>, <<>>)
            group_by == parsed.group_by
            agg_dict == IF parsed.agg_dict = <<>> THEN NumericAggs(df, 1) ELSE parsed.agg_dict
            missing(names) == {k \in 1..Len(names) : Positions(df.cols, names[k]) = <<>>}
            sources == [a \in 1..Len(agg_dict) |-> agg_dict[a].src]
        IN  IF group_by # <<>> THEN
                IF missing(group_by) # {} THEN
                    Raise(KeyError(group_by[CHOOSE k \in missing(group_by) : \A j \in missing(group_by) : k <= j]))
                ELSE IF HasDuplicates(group_by) \/ HasDuplicates(df.cols) THEN Raise("ValueError")
                ELSE IF missing(sources) # {} THEN Raise("KeyError")
                ELSE IF \E a \in 1..Len(agg_dict) : agg_dict[a].res \in SeqToSet(group_by) THEN
                    \* reset_index cannot insert a key column the aggregates already hold
                    Raise("ValueError")
                ELSE GroupAgg(df, group_by, agg_dict)
            ELSE
                \* df.agg(agg_dict): a key that is no column is a KeyError, and the
                \* (column, aggfunc) pair of a key that is one is no function of a Series
                IF \E a \in 1..Len(agg_dict) : Positions(df.cols, agg_dict[a].res) = <<>>
                THEN Raise("KeyError")
                ELSE IF agg_dict = <<>> THEN Raise("ValueError")
                ELSE Raise("AttributeError")


(***************************************************************************)
(* KQLEngine._sort, _distinct, _top: pandas sort_values, sort_index,       *)
(* drop_duplicates, nlargest and nsmallest.                                *)
(***************************************************************************)
\* key a sorts strictly before key b: column by column, nulls last in either
\* direction
RECURSIVE KeyBefore(_, _, _)
KeyBefore(a, b, ascending) ==
    IF a = <<>> THEN FALSE
    ELSE
        LET x == Head(a)
            y == Head(b)
            before == IF x.t = "null" THEN FALSE
                      ELSE IF y.t = "null" THEN TRUE
                      ELSE IF ascending THEN ValLess(x, y) ELSE ValLess(y, x)
            after == IF y.t = "null" THEN FALSE
                     ELSE IF x.t = "null" THEN TRUE
                     ELSE IF ascending THEN ValLess(y, x) ELSE ValLess(x, y)
        IN  IF before THEN TRUE
            ELSE IF after THEN FALSE
            ELSE KeyBefore(Tail(a), Tail(b), ascending)

\* position p put into the sorted sequence of positions, behind its equals
RECURSIVE InsertPos(_, _, _, _)
InsertPos(sorted, p, keys, ascending) ==
    IF sorted = <<>> THEN <<p>>
    ELSE IF KeyBefore(keys[p], keys[Head(sorted)], ascending) THEN <<p>> \o sorted
    ELSE <<Head(sorted)>> \o InsertPos(Tail(sorted), p, keys, ascending)

\* the positions 1..k in a stable order of their keys
RECURSIVE StableOrder(_, _, _)
StableOrder(keys, k, ascending) ==
    IF k = 0 THEN <<>>
    ELSE InsertPos(StableOrder(keys, k - 1, ascending), k, keys, ascending)

\* position p put into the sorted sequence of positions by a sort that is
\* not stable: behind its equals where the build keeps ties, before them
\* where it does not; null keys are set apart and keep their order
RECURSIVE InsertTied(_, _, _, _, _)
InsertTied(sorted, p, keys, ascending, kept) ==
    IF sorted = <<>> THEN <<p>>
    ELSE IF \/ KeyBefore(keys[p], keys[Head(sorted)], ascending)
            \/ /\ ~kept
               /\ keys[p][1].t # "null"
               /\ ~KeyBefore(keys[Head(sorted)], keys[p], ascending)
         THEN <<p>> \o sorted
    ELSE <<Head(sorted)>> \o InsertTied(Tail(sorted), p, keys, ascending, kept)

\* the positions 1..k in the order kind='quicksort' gives: sorted by key, the
\* rows with equal keys as the build leaves them
RECURSIVE QuickOrder(_, _, _, _)
QuickOrder(keys, k, ascending, kept) ==
    IF k = 0 THEN <<>>
    ELSE InsertTied(QuickOrder(keys, k - 1, ascending, kept), k, keys, ascending, kept)

\* df.sort_index(): the frame as it is when its labels already ascend, else
\* the rows by label, sorted with kind='quicksort'
SortIndex(df) ==
    IF \A r \in 1..(NRows(df) - 1) : df.idx[r] <= df.idx[r + 1] THEN df
    ELSE TakeRows(df, QuickOrder([r \in 1..NRows(df) |-> <<IntV(df.idx[r])>>],
                                 NRows(df), TRUE, ties = "kept"))

\* the cells of a column cannot be ordered among themselves
Unsortable(cells) ==
    \/ \E k \in 1..Len(cells) : cells[k].t \notin {"int", "float", "bool", "str", "null"}
    \/ /\ \E k \in 1..Len(cells) : IsNum(cells[k])
       /\ \E k \in 1..Len(cells) : cells[k].t = "str"

_sort(df, args, kwargs) ==
    IF args = <<>> THEN
        Ok(SortIndex(df))
    ELSE
        LET order == IF "order" \in DOMAIN kwargs THEN kwargs["order"] ELSE StrV("asc")
            columns == Flatten(args)
            bad == {k \in 1..Len(columns) : ~InColumns(df, columns[k])}
        IN  IF order.t # "str" THEN Raise("AttributeError")
            ELSE IF bad # {} THEN
                LET k == CHOOSE j \in bad : \A m \in bad : j <= m
                IN  Raise(IF columns[k].t = "str" THEN KeyError(columns[k].v) ELSE ToStr(columns[k]))
            ELSE IF \E k \in 1..Len(columns) : Len(Positions(df.cols, columns[k].v)) > 1 THEN Raise("ValueError")
            ELSE IF \E k \in 1..Len(columns) : Unsortable(Column(df, columns[k].v)) THEN Raise("TypeError")
            ELSE
                LET ps == [k \in 1..Len(columns) |-> Positions(df.cols, columns[k].v)[1]]
                    keys == [r \in 1..NRows(df) |-> [k \in 1..Len(ps) |-> df.rows[r][ps[k]]]]
                    ascending == Lower(order.v) # "desc"
                \* one column: nargsort with kind='quicksort'; several: lexsort
                IN  IF Len(columns) = 1
                    THEN Ok(TakeRows(df, QuickOrder(keys, NRows(df), ascending, ties = "kept")))
                    ELSE Ok(TakeRows(df, StableOrder(keys, NRows(df), ascending)))

\* DropDuplicates keeping the last row of each key instead of the first
DropDuplicatesLast(df, ps) ==
    LET keys == [r \in 1..NRows(df) |-> [k \in 1..Len(ps) |-> df.rows[r][ps[k]]]]
        final == [r \in 1..NRows(df) |-> \A q \in (r + 1)..NRows(df) : keys[q] # keys[r]]
    IN  IF \E r \in 1..NRows(df), k \in 1..Len(ps) : keys[r][k].t = "list" THEN Raise("TypeError")
        ELSE Ok(TakeRows(df, FilterPos(final, 1, NRows(df))))

\* df.drop_duplicates(subset): the rows whose key no earlier row has
DropDuplicates(df, ps) ==
    LET keys == [r \in 1..NRows(df) |-> [k \in 1..Len(ps) |-> df.rows[r][ps[k]]]]
        first == [r \in 1..NRows(df) |-> \A q \in 1..(r - 1) : keys[q] # keys[r]]
    IN  IF \E r \in 1..NRows(df), k \in 1..Len(ps) : keys[r][k].t = "list" THEN Raise("TypeError")
        ELSE Ok(TakeRows(df, FilterPos(first, 1, NRows(df))))

_distinct(df, args, kwargs) ==
    IF args # <<>> THEN
        LET columns == Flatten(args) IN
        IF \E k \in 1..Len(columns) : ~InColumns(df, columns[k]) THEN Raise("KeyError")
        ELSE DropDuplicates(df, SelectPositions(df.cols, [k \in 1..Len(columns) |-> columns[k].v]))
    ELSE DropDuplicates(df, [k \in 1..Len(df.cols) |-> k])

\* df.nlargest(n, column) / df.nsmallest(n, column): the n first rows in the
\* stable order of the column, nulls last
SelectN(df, n, column, largest) ==
    LET cells == Column(df, column)
        keys == [r \in 1..NRows(df) |-> <<cells[r]>>]
        order == StableOrder(keys, NRows(df), ~largest)
    IN  IF \E r \in 1..NRows(df) : ~IsNumericCell(cells[r]) THEN Raise("TypeError")
        ELSE Ok(TakeRows(df, SubSeq(order, 1, Min(Max(n, 0), NRows(df)))))

_top(df, args, kwargs) ==
    IF Len(args) >= 2 THEN
        LET n == ToInt(args[1])
            column == args[2]
            by == IF "by" \in DOMAIN kwargs THEN kwargs["by"] ELSE StrV("desc")
        IN  IF ~n.ok THEN Raise(n.err)
            ELSE IF column.t = "list" THEN Raise("TypeError")
            ELSE IF InColumns(df, column) THEN
                IF by.t # "str" THEN Raise("AttributeError")
                ELSE IF Len(Positions(df.cols, column.v)) > 1 THEN Raise("ValueError")
                ELSE SelectN(df, n.n, column.v, Lower(by.v) = "desc")
            ELSE Ok(Head_(df, 10))
    ELSE Ok(Head_(df, 10))

(***************************************************************************)
(* KQLEngine._sample: every draw df.sample can make.                       *)
(***************************************************************************)
\* Draws with a position free to be drawn again
RECURSIVE DrawsRepeating(_, _)
DrawsRepeating(S, m) ==
    IF m = 0 THEN {<<>>}
    ELSE UNION {{<<p>> \o d : d \in DrawsRepeating(S, m - 1)} : p \in S}

\* the sequences of m different positions among 1..n
RECURSIVE Draws(_, _)
Draws(S, m) ==
    IF m = 0 THEN {<<>>}
    ELSE UNION {{<<p>> \o d : d \in Draws(S \ {p}, m - 1)} : p \in S}

\* round(n / 10), halves to the even neighbour
RoundTenth(n) ==
    IF n % 10 = 5 THEN (IF (n \div 10) % 2 = 0 THEN n \div 10 ELSE (n \div 10) + 1)
    ELSE (n + 5) \div 10

_sample(df, args, kwargs) ==
    IF args # <<>> THEN
        LET n == ToInt(args[1]) IN
        IF ~n.ok THEN {Raise(n.err)}
        ELSE IF Min(n.n, NRows(df)) < 0 THEN {Raise("ValueError")}
        ELSE {Ok(TakeRows(df, d)) : d \in Draws(1..NRows(df), Min(n.n, NRows(df)))}
    ELSE {Ok(TakeRows(df, d)) : d \in Draws(1..NRows(df), RoundTenth(NRows(df)))}

(***************************************************************************)
(* KQLEngine._make_list, _mv_expand, _extend.                              *)
(***************************************************************************)
\* _make_list with the values listed from the last row to the first
_make_listReversed(df, args, kwargs) ==
    IF args # <<>> THEN
        LET column == args[1] IN
        IF column.t = "list" THEN Raise("TypeError")
        ELSE IF InColumns(df, column) THEN
            LET cells == Column(df, column.v) IN
            Ok([cols |-> <<column.v \o "_list">>, idx |-> <<0>>,
                rows |-> <<<<ListV([k \in 1..Len(cells) |-> cells[Len(cells) + 1 - k]])>>>>])
        ELSE Ok(df)
    ELSE Ok(df)

_make_list(df, args, kwargs) ==
    IF args # <<>> THEN
        LET column == args[1] IN
        IF column.t = "list" THEN Raise("TypeError")
        ELSE IF InColumns(df, column) THEN
            Ok([cols |-> <<column.v \o "_list">>, idx |-> <<0>>,
                rows |-> <<<<ListV(Column(df, column.v))>>>>])
        ELSE Ok(df)
    ELSE Ok(df)

\* Explode with no row for an empty list
RECURSIVE ExplodeEmptyDropped(_, _, _)
ExplodeEmptyDropped(df, p, r) ==
    IF r > NRows(df) THEN [idx |-> <<>>, rows |-> <<>>]
    ELSE
        LET cell == df.rows[r][p]
            rest == ExplodeEmptyDropped(df, p, r + 1)
            elems == IF cell.t # "list" THEN <<cell>> ELSE cell.v
        IN  [idx  |-> [k \in 1..Len(elems) |-> df.idx[r]] \o rest.idx,
             rows |-> [k \in 1..Len(elems) |-> [df.rows[r] EXCEPT ![p] = elems[k]]] \o rest.rows]

\* df.explode(column), rows r..: one row per element of a list cell (one null
\* row for an empty list), the label repeated
RECURSIVE Explode(_, _, _)
Explode(df, p, r) ==
    IF r > NRows(df) THEN [idx |-> <<>>, rows |-> <<>>]
    ELSE
        LET cell == df.rows[r][p]
            rest == Explode(df, p, r + 1)
            elems == IF cell.t # "list" THEN <<cell>>
                     ELSE IF cell.v = <<>> THEN <<NullV>>
                     ELSE cell.v
        IN  [idx  |-> [k \in 1..Len(elems) |-> df.idx[r]] \o rest.idx,
             rows |-> [k \in 1..Len(elems) |-> [df.rows[r] EXCEPT ![p] = elems[k]]] \o rest.rows]

_mv_expand(df, args, kwargs) ==
    IF args # <<>> THEN
        LET column == args[1] IN
        IF column.t = "list" THEN Raise("TypeError")
        ELSE IF InColumns(df, column)
                /\ \E r \in 1..NRows(df) : Column(df, column.v)[r].t = "list" THEN
            LET e == Explode(df, Positions(df.cols, column.v)[1], 1)
            IN  Ok([cols |-> df.cols, idx |-> e.idx, rows |-> e.rows])
        ELSE Ok(df)
    ELSE Ok(df)

\* result[col_name] = cells: a column of that name is overwritten where it
\* stands, a new one is added last
SetColumn(extended, col_name, cells) ==
    IF Positions(extended.cols, col_name) # <<>> THEN
        [extended EXCEPT !.rows = [r \in 1..NRows(extended) |->
            [k \in 1..Len(extended.cols) |-> IF extended.cols[k] = col_name THEN cells[r] ELSE extended.rows[r][k]]]]
    ELSE [extended EXCEPT !.cols = Append(extended.cols, col_name),
                        !.rows = [r \in 1..NRows(extended) |-> Append(extended.rows[r], cells[r])]]

\* a + b and a * b on cells: [ok, v]; a null operand gives null
CellAdd(a, b) ==
    IF a.t = "null" \/ b.t = "null" THEN [ok |-> TRUE, v |-> NullV]
    ELSE IF a.t = "int" /\ b.t = "int" THEN [ok |-> TRUE, v |-> IntV(a.v + b.v)]
    ELSE IF IsNum(a) /\ IsNum(b) THEN
        [ok |-> TRUE, v |-> FloatV(FAdd(Num(a), Num(b))[1], FAdd(Num(a), Num(b))[2])]
    ELSE IF a.t = "str" /\ b.t = "str" THEN [ok |-> TRUE, v |-> StrV(a.v \o b.v)]
    ELSE [ok |-> FALSE, v |-> NullV]

RECURSIVE Repeat(_, _)
Repeat(s, n) == IF n <= 0 THEN "" ELSE s \o Repeat(s, n - 1)

CellMul(a, b) ==
    IF a.t = "null" \/ b.t = "null" THEN [ok |-> TRUE, v |-> NullV]
    ELSE IF a.t = "int" /\ b.t = "int" THEN [ok |-> TRUE, v |-> IntV(a.v * b.v)]
    ELSE IF IsNum(a) /\ IsNum(b) THEN
        [ok |-> TRUE, v |-> FloatV(FMul(Num(a), Num(b))[1], FMul(Num(a), Num(b))[2])]
    ELSE IF a.t = "str" /\ b.t = "int" THEN [ok |-> TRUE, v |-> StrV(Repeat(a.v, b.v))]
    ELSE IF a.t = "int" /\ b.t = "str" THEN [ok |-> TRUE, v |-> StrV(Repeat(b.v, a.v))]
    ELSE [ok |-> FALSE, v |-> NullV]

\* start folded with the cells of row r of the named columns, left to right
RECURSIVE FoldCells(_, _, _, _, _)
FoldCells(df, names, r, acc, times) ==
    IF names = <<>> \/ ~acc.ok THEN acc
    ELSE LET c == df.rows[r][Positions(df.cols, Head(names))[1]]
         IN  FoldCells(df, Tail(names), r, IF times THEN CellMul(acc.v, c) ELSE CellAdd(acc.v, c), times)

\* the stripped parts that are columns
RECURSIVE PresentParts(_, _)
PresentParts(df, parts) ==
    IF parts = <<>> THEN <<>>
    ELSE (IF Positions(df.cols, Strip(Head(parts))) # <<>> THEN <<Strip(Head(parts))>> ELSE <<>>)
             \o PresentParts(df, Tail(parts))

\* the try block of lines 293-312 for one name=expression: the new table,
\* extended itself when nothing is assigned or an exception is swallowed
ExtendOne(df, extended, col_name, expression) ==
    LET n == NRows(df)
        inner == SubSeq(expression, 9, Len(expression) - 1)
        fold(parts, start, times) ==
            [r \in 1..n |-> FoldCells(df, PresentParts(df, parts), r, [ok |-> TRUE, v |-> start], times)]
        assign(cells) ==
            IF \E r \in 1..n : ~cells[r].ok THEN extended
            ELSE SetColumn(extended, col_name, [r \in 1..n |-> cells[r].v])
    IN  IF StartsWith(expression, "tolower(") \/ StartsWith(expression, "toupper(") THEN
            IF Positions(df.cols, inner) = <<>> \/ Len(Positions(df.cols, inner)) > 1 THEN extended
            ELSE SetColumn(extended, col_name,
                     [r \in 1..n |-> StrV(IF StartsWith(expression, "tolower(")
                                          THEN Lower(ToStr(Column(df, inner)[r]))
                                          ELSE Upper(ToStr(Column(df, inner)[r])))])
        ELSE IF HasDuplicates(df.cols) THEN extended
        ELSE IF Contains(expression, "+") THEN assign(fold(Split(expression, "+"), IntV(0), FALSE))
        ELSE IF Contains(expression, "*") THEN assign(fold(Split(expression, "*"), IntV(1), TRUE))
        ELSE extended

RECURSIVE ExtendArgs(_, _, _, _)
ExtendArgs(df, extended, args, k) ==
    IF k > Len(args) THEN extended
    ELSE IF args[k].t = "str" /\ Contains(args[k].v, "=") THEN
        LET ce == Split1(args[k].v, "=")
        IN  ExtendArgs(df, ExtendOne(df, extended, Strip(ce[1]), Strip(ce[2])), args, k + 1)
    ELSE ExtendArgs(df, extended, args, k + 1)

_extend(df, args, kwargs) == Ok(ExtendArgs(df, df, args, 1))


(***************************************************************************)
(* The engine and KQLEngine.execute_query.                                 *)
(***************************************************************************)
\* the keys of self.functions
Functions ==
    {"where", "summarize", "project", "extend", "sort", "take", "count", "distinct",
     "join", "union", "sample", "top", "make_list", "mv_expand"}

\* table_name of __init__
TableName == "Data"

\* df.copy()
CopyDf(df) == df

\* self.functions[func_name](result, *args, **kwargs): every outcome the call
\* can have (one, except for sample); a keyword argument called like a
\* parameter of the method is a TypeError
StageResults(operation, df) ==
    LET f == operation.function
        args == operation.args
        kwargs == operation.kwargs
    IN  IF "df" \in DOMAIN kwargs \/ "self" \in DOMAIN kwargs THEN {Raise("TypeError")}
        ELSE IF f = "where" THEN {_where(df, args, kwargs)}
        ELSE IF f = "summarize" THEN {_summarize(df, args, kwargs)}
        ELSE IF f = "project" THEN {_project(df, args, kwargs)}
        ELSE IF f = "extend" THEN {_extend(df, args, kwargs)}
        ELSE IF f = "sort" THEN {_sort(df, args, kwargs)}
        ELSE IF f = "take" THEN {_take(df, args, kwargs)}
        ELSE IF f = "count" THEN {_count(df, args, kwargs)}
        ELSE IF f = "distinct" THEN {_distinct(df, args, kwargs)}
        ELSE IF f = "join" THEN {_join(df, args, kwargs)}
        ELSE IF f = "union" THEN {_union(df, args, kwargs)}
        ELSE IF f = "sample" THEN _sample(df, args, kwargs)
        ELSE IF f = "top" THEN {_top(df, args, kwargs)}
        ELSE IF f = "make_list" THEN {_make_list(df, args, kwargs)}
        ELSE {_mv_expand(df, args, kwargs)}

\* the message of the ValueError of line 51
Wrap(cause) == "Query execution error: " \o cause

\* the message of the ValueError of line 46
UnknownFunction(func_name) == "Unknown function: " \o func_name

(***************************************************************************)
(* The tables an engine is constructed on and the queries its callers      *)
(* send.                                                                   *)
(***************************************************************************)
MaxRows == 6

Events ==
    [cols |-> <<"id", "status", "value">>,
     idx  |-> RangeIndex(3),
     rows |-> << <<IntV(1), StrV("success"), IntV(120)>>,
                 <<IntV(2), StrV("fail"), IntV(80)>>,
                 <<IntV(3), StrV("success"), IntV(200)>> >>]

Letters ==
    [cols |-> <<"a", "b", "c">>,
     idx  |-> RangeIndex(4),
     rows |-> << <<IntV(1), IntV(4), StrV("x")>>,
                 <<IntV(2), IntV(5), StrV("y")>>,
                 <<IntV(3), IntV(6), StrV("x")>>,
                 <<IntV(1), IntV(4), StrV("x")>> >>]

Groups ==
    [cols |-> <<"g", "v", "x">>,
     idx  |-> RangeIndex(5),
     rows |-> << <<StrV("b"), IntV(1), IntV(5)>>,
                 <<StrV("a"), NullV, IntV(1)>>,
                 <<StrV("b"), IntV(3), IntV(3)>>,
                 <<NullV, IntV(4), IntV(2)>>,
                 <<StrV("a"), NullV, IntV(4)>> >>]

Numbers ==
    [cols |-> <<"x">>,
     idx  |-> RangeIndex(5),
     rows |-> << <<IntV(5)>>, <<IntV(1)>>, <<IntV(3)>>, <<IntV(2)>>, <<IntV(4)>> >>]

Pairs ==
    [cols |-> <<"a", "b">>,
     idx  |-> RangeIndex(3),
     rows |-> << <<IntV(1), IntV(4)>>, <<IntV(2), IntV(5)>>, <<IntV(3), IntV(6)>> >>]

Lists ==
    [cols |-> <<"k", "tags">>,
     idx  |-> RangeIndex(3),
     rows |-> << <<IntV(1), ListV(<<StrV("p"), StrV("q")>>)>>,
                 <<IntV(2), StrV("r")>>,
                 <<IntV(3), ListV(<<>>)>> >>]

Readings ==
    [cols |-> <<"n">>,
     idx  |-> RangeIndex(6),
     rows |-> [k \in 1..6 |-> <<IntV(10 * k)>>]]

\* a loaded file: the first n rows of one of the tables, n = 0 .. MaxRows
Tables ==
    {Head_(t, n) : t \in {Events, Letters, Groups, Numbers, Pairs, Lists, Readings}, n \in 0..MaxRows}

Queries ==
    {"Data | where status = success | summarize total=sum(value) by status",
     "where status = success | summarize total=sum(value) by status",
     "Data | project a, c",
     "project a, c",
     "project value, zz, id",
     "project c, a | project a, b, c",
     "project zz, 7",
     "where status = success",
     "where value > 100",
     "where value >= 100 and id != 3",
     "where value > 100 and status contains SUCC",
     "where status startswith s and status endswith s",
     "where id < 3 and value <= 120",
     "where status > 5 | count",
     "where zz > 1 | frobnicate",
     "where value > 100 | frobnicate | count",
     "Take 2 | count | bogus",
     "summarize cnt=count(v) by g",
     "summarize g",
     "sample 1",
     "distinct g | sample 2 | take df=1",
     "sort status, order=desc | top 2, value",
     "make_list id | mv_expand id_list | extend s=a+b",
     "join | union x | sort",
     "take 2",
     "take -1",
     "take",
     "take 7",
     "Data | sort by x",
     "sort by x",
     "sort x",
     "sort c",
     "sort c, a",
     "sort c, order=DESC",
     "sort a, order=desc | sort",
     "distinct a, c",
     "distinct c",
     "distinct",
     "Data | top 2 x",
     "top 2 x",
     "top 2, x",
     "top 2, a, by=ASC",
     "top 2, zz",
     "where zz = 1",
     "summarize t=sum(zz) by g",
     "Data | extend s=a+b",
     "extend s=a+b",
     "extend df=a+b",
     "make_list x",
     "take 0 | make_list k | mv_expand k_list",
     "mv_expand tags",
     "mv_expand k",
     "sample 2",
     "sample",
     "project a, a",
     "take 1 | !count",
     "where value > 100\n and id < 3",
     "project (a, b), 'x,y', k=1, c, k=2",
     "project (a, 2, (b, c)), 'q', -3, 1.5, TRUE, c",
     "where value > 100 | where id > 1",
     "where value > 100 and id > 1",
     "take 2 | where value > 100",
     "sort value, order=desc | where value > 100",
     "distinct status | where value > 100"}

\* self._parse_query(query), for each of the queries
Parsed == [q \in Queries |-> _parse_query(q)] @@ <<>>

\* the state of the web application, which the engine's own steps leave alone
app == <<data_store, cookies, now, response>>

vars == <<self_df, pc, query, operations, i, result, returned, error, last, ties,
          data_store, cookies, now, response>>

\* the browsers that talk to the application, each with its own session cookie
Clients == {"c1", "c2"}

NoResponse == [client |-> "", route |-> "", filename |-> "", status |-> 0, error |-> ""]

\* the application as it starts: data_store = {} (app.py line 23), no client
\* holds a session cookie, nothing has been answered
NoApp ==
    /\ data_store = <<>>
    /\ cookies = [c \in Clients |-> ""]
    /\ now = 0
    /\ response = NoResponse

Nothing == [has |-> FALSE, df |-> NoTable]

\* what a caller sees of a finished call
Outcome == [pc |-> pc, returned |-> returned, error |-> error]

NoCall == [query |-> "", outcome |-> [pc |-> "Ready", returned |-> Nothing, error |-> ""]]

\* KQLEngine(df): the engine holds a copy of a loaded table
Init ==
    /\ self_df \in {CopyDf(t) : t \in Tables}
    /\ pc = "Ready"
    /\ query = ""
    /\ operations = <<>>
    /\ i = 1
    /\ result = NoTable
    /\ returned = Nothing
    /\ error = ""
    /\ last = NoCall
    /\ ties \in {"kept", "reversed"}
    /\ NoApp

\* execute_query(q) is entered: lines 35-36
Call(q) ==
    /\ pc \in {"Ready", "Succeeded", "Failed"}
    /\ last' = IF pc # "Ready" /\ q = query THEN [query |-> query, outcome |-> Outcome] ELSE NoCall
    /\ query' = q
    /\ operations' = Parsed[q]
    /\ result' = CopyDf(self_df)
    /\ i' = 1
    /\ pc' = "Running"
    /\ returned' = Nothing
    /\ error' = ""
    /\ UNCHANGED <<self_df, ties>>
    /\ UNCHANGED app

\* Dispatch with the exception of a stage swallowed: the loop goes on with the
\* table it had
DispatchSwallowing ==
    /\ pc = "Running"
    /\ i <= Len(operations)
    /\ operations[i].function \in Functions
    /\ \E r \in StageResults(operations[i], result) :
          /\ result' = IF r.ok THEN r.df ELSE result
          /\ i' = i + 1
    /\ UNCHANGED <<self_df, pc, query, operations, returned, error, last, ties>>
    /\ UNCHANGED app

\* Dispatch with the stage working on self.df itself instead of on a copy:
\* what the stage produces becomes the stored table
DispatchInPlace ==
    /\ pc = "Running"
    /\ i <= Len(operations)
    /\ operations[i].function \in Functions
    /\ \E r \in StageResults(operations[i], result) :
          IF r.ok
          THEN /\ result' = r.df
               /\ self_df' = r.df
               /\ i' = i + 1
               /\ UNCHANGED <<pc, error>>
          ELSE /\ pc' = "Failed"
               /\ error' = Wrap(r.err)
               /\ UNCHANGED <<self_df, result, i>>
    /\ UNCHANGED <<query, operations, returned, last, ties>>
    /\ UNCHANGED app

\* one pass of the loop with a registered function: lines 43-44, and line 51
\* when the function raises
Dispatch ==
    /\ pc = "Running"
    /\ i <= Len(operations)
    /\ operations[i].function \in Functions
    /\ \E r \in StageResults(operations[i], result) :
          IF r.ok
          THEN /\ result' = r.df
               /\ i' = i + 1
               /\ UNCHANGED <<pc, error>>
          ELSE /\ pc' = "Failed"
               /\ error' = Wrap(r.err)
               /\ UNCHANGED <<result, i>>
    /\ UNCHANGED <<self_df, query, operations, returned, last, ties>>
    /\ UNCHANGED app

\* Unknown passing over the name that is not registered instead of raising
UnknownSkipped ==
    /\ pc = "Running"
    /\ i <= Len(operations)
    /\ operations[i].function \notin Functions
    /\ i' = i + 1
    /\ UNCHANGED <<self_df, pc, query, operations, result, returned, error, last, ties>>
    /\ UNCHANGED app

\* one pass of the loop with a name that is not registered: lines 46 and 51
Unknown ==
    /\ pc = "Running"
    /\ i <= Len(operations)
    /\ operations[i].function \notin Functions
    /\ pc' = "Failed"
    /\ error' = Wrap(UnknownFunction(operations[i].function))
    /\ UNCHANGED <<self_df, query, operations, i, result, returned, last, ties>>
    /\ UNCHANGED app

\* Return with the result also assigned to self.df
ReturnStored ==
    /\ pc = "Running"
    /\ i > Len(operations)
    /\ pc' = "Succeeded"
    /\ returned' = [has |-> TRUE, df |-> result]
    /\ self_df' = result
    /\ UNCHANGED <<query, operations, i, result, error, last, ties>>
    /\ UNCHANGED app

\* the loop is over: line 48
Return ==
    /\ pc = "Running"
    /\ i > Len(operations)
    /\ pc' = "Succeeded"
    /\ returned' = [has |-> TRUE, df |-> result]
    /\ UNCHANGED <<self_df, query, operations, i, result, error, last, ties>>
    /\ UNCHANGED app

Next ==
    \/ \E q \in Queries : Call(q)
    \/ Dispatch
    \/ Unknown
    \/ Return

Spec == Init /\ [][Next]_vars

(***************************************************************************)
(* KQLEngine._where called by itself with a condition string, as           *)
(* self.functions['where'](df, condition).                                 *)
(***************************************************************************)
Conditions ==
    {"status = success",
     "id != 2",
     "value >= 120",
     "value <= 120",
     "value > 100",
     "id < 3",
     "status contains CC",
     "status startswith s",
     "status endswith l",
     "value >= 100 and id != 3",
     "a <= 2 and c = x",
     "status != a>=b",
     "status contains startswith",
     "zz = 1",
     "value"}

\* the table and the condition of the call
WhereInit ==
    /\ self_df \in Tables
    /\ query \in Conditions
    /\ pc = "Ready"
    /\ operations = <<>>
    /\ i = 1
    /\ result = NoTable
    /\ returned = Nothing
    /\ error = ""
    /\ last = NoCall
    /\ ties = "kept"
    /\ NoApp

\* _where(df, condition) returns or raises: lines 148-220
WhereCall ==
    /\ pc = "Ready"
    /\ LET r == _where(self_df, <<StrV(query)>>, EmptyDict)
       IN  IF r.ok
           THEN /\ pc' = "Succeeded"
                /\ returned' = [has |-> TRUE, df |-> r.df]
                /\ error' = ""
           ELSE /\ pc' = "Failed"
                /\ returned' = Nothing
                /\ error' = r.err
    /\ UNCHANGED <<self_df, query, operations, i, result, last, ties>>
    /\ UNCHANGED app

WhereNext == WhereCall

WhereSpec == WhereInit /\ [][WhereNext]_vars

(***************************************************************************)
(* The web application (src/app.py): the upload endpoint, the session      *)
(* store and the endpoints that work on a stored session.  A request is    *)
(* handled in one step.  The clock counts whole seconds: strftime of line  *)
(* 47 formats a time to the second, and two times format alike exactly     *)
(* when they lie in the same second.                                       *)
(***************************************************************************)
MaxClock == 2

\* Config.ALLOWED_EXTENSIONS: the keys of the dictionary
ALLOWED_EXTENSIONS == {"csv", "xlsx", "xls", "xlsb", "xltx", "ods", "parquet", "json"}

\* FileUploadHandler.supported_extensions: the keys of the dictionary
supported_extensions == {".csv", ".xlsx", ".xls", ".xlsb", ".xltx", ".ods", ".parquet", ".json"}

\* Path(name).suffix: the last component of the path from its last dot on,
\* the dot included; "" when the component has no dot, or none but its first
\* or its last character
Suffix(name) ==
    LET slashes == {k \in 1..Len(name) : Char(name, k) = "/"}
        base == IF slashes = {} THEN name ELSE SubSeq(name, Greatest(slashes) + 1, Len(name))
        dots == {k \in 1..Len(base) : Char(base, k) = "."}
    IN  IF dots = {} \/ Greatest(dots) = 1 \/ Greatest(dots) = Len(base) THEN ""
        ELSE SubSeq(base, Greatest(dots), Len(base))

\* the file names of the uploads
Filenames ==
    {"", "data.csv", "DATA.CSV", "book.xlsx", "old.xls", "bin.xlsb", "form.xltx",
     "sheet.ods", "t.parquet", "rows.json", "notes.txt", "data.csv.gz", "archive",
     "csv", ".csv"}

\* request.files: no part called file, or a file with its name and the table
\* it holds (NoTable for an empty file)
NoFile == [present |-> FALSE, filename |-> "", content |-> NoTable]

Files ==
    {NoFile} \cup {[present |-> TRUE, filename |-> f, content |-> t] :
                      f \in Filenames, t \in {NoTable, Events, Letters}}

\* FileUploadHandler.process_file(file_path): the table the reader returns, or
\* the exception (an empty file has no columns to parse)
process_file(file_path, content) ==
    LET ext == Lower(Suffix(file_path))
    IN  IF ext \notin supported_extensions THEN Raise("Unsupported file extension: " \o ext)
        ELSE IF content = NoTable THEN Raise("No columns to parse from file")
        ELSE Ok(content)

\* the entry of data_store for a table: the table itself, and the copies that
\* DataProcessor(df), DataVisualizer(df) and KQLEngine(df) hold
Session(df, file_path) ==
    [dataframe |-> df, processor |-> CopyDf(df), visualizer |-> CopyDf(df),
     kql_engine |-> CopyDf(df), file_path |-> file_path]

\* return jsonify(...), status
Reply(c, route, filename, status, err) ==
    response' = [client |-> c, route |-> route, filename |-> filename,
                 status |-> status, error |-> err]

\* POST /upload: lines 30-83
upload_file(c, file) ==
    LET file_ext == Lower(Suffix(file.filename))
        timestamp == NatToStr(now)
        file_path == "uploads/" \o timestamp \o "_" \o file.filename
        loaded == process_file(file_path, file.content)
        session_id == "session_" \o timestamp
        answer(status, err) == Reply(c, "/upload", file.filename, status, err)
    IN  /\ IF ~file.present THEN
               answer(400, "No file provided") /\ UNCHANGED <<data_store, cookies>>
           ELSE IF file.filename = "" THEN
               answer(400, "No file selected") /\ UNCHANGED <<data_store, cookies>>
           ELSE IF file_ext \notin ALLOWED_EXTENSIONS THEN
               /\ answer(400, "File type not supported: " \o file_ext)
               /\ UNCHANGED <<data_store, cookies>>
           ELSE IF ~loaded.ok THEN
               answer(500, loaded.err) /\ UNCHANGED <<data_store, cookies>>
           ELSE
               /\ data_store' = (session_id :> Session(loaded.df, file_path)) @@ data_store
               /\ cookies' = [cookies EXCEPT ![c] = session_id]
               /\ answer(200, "")
        /\ UNCHANGED <<self_df, pc, query, operations, i, result, returned, error, last, ties, now>>

NoData == "No data available. Please upload a file first."

\* session.get('session_id') names a stored session: the test every endpoint
\* on a session starts with
Stored(c) == cookies[c] # "" /\ cookies[c] \in DOMAIN data_store

\* what the handlers on a session leave alone besides the store
Kept == <<self_df, pc, query, operations, i, result, returned, error, last, ties, cookies, now>>

\* GET /preview, with the default rows and page: lines 85-114
preview_data(c) ==
    /\ IF ~Stored(c) THEN Reply(c, "/preview", "", 400, NoData)
       ELSE Reply(c, "/preview", "", 200, "")
    /\ UNCHANGED data_store
    /\ UNCHANGED Kept

\* GET /statistics: lines 116-132
get_statistics(c) ==
    /\ IF ~Stored(c) THEN Reply(c, "/statistics", "", 400, NoData)
       ELSE Reply(c, "/statistics", "", 200, "")
    /\ UNCHANGED data_store
    /\ UNCHANGED Kept

\* DataProcessor.clean_data(methods) on the processor's table, for methods
\* that switch fill_missing, remove_outliers and convert_types off
ProcessorClean(df, remove_duplicates) ==
    IF remove_duplicates THEN DropDuplicates(df, [k \in 1..Len(df.cols) |-> k]) ELSE Ok(df)

\* POST /clean: lines 134-162
clean_data(c, remove_duplicates) ==
    /\ IF ~Stored(c) THEN
           Reply(c, "/clean", "", 400, NoData) /\ UNCHANGED data_store
       ELSE
           LET data_info == data_store[cookies[c]]
               cleaned == ProcessorClean(data_info.processor, remove_duplicates)
           IN  IF ~cleaned.ok THEN
                   Reply(c, "/clean", "", 500, cleaned.err) /\ UNCHANGED data_store
               ELSE
                   /\ data_store' = [data_store EXCEPT
                                        ![cookies[c]] = Session(cleaned.df, data_info.file_path)]
                   /\ Reply(c, "/clean", "", 200, "")
    /\ UNCHANGED Kept

\* the queries of the requests to /kql/query
KqlQueries == {"", "take 2", "where value > 100 | frobnicate | count", "where value > 100", "sample 2"}

\* KQLEngine.execute_query from operations[k] on, on the table df: every
\* outcome the call can have
RECURSIVE execute_query(_, _, _)
execute_query(ops, k, df) ==
    IF k > Len(ops) THEN {Ok(df)}
    ELSE IF ops[k].function \notin Functions THEN {Raise(Wrap(UnknownFunction(ops[k].function)))}
    ELSE UNION {IF r.ok THEN execute_query(ops, k + 1, r.df) ELSE {Raise(Wrap(r.err))} :
                   r \in StageResults(ops[k], df)}

\* POST /kql/query: lines 164-194
execute_kql_query(c, q) ==
    /\ IF ~Stored(c) THEN Reply(c, "/kql/query", "", 400, NoData)
       ELSE IF q = "" THEN Reply(c, "/kql/query", "", 400, "No query provided")
       ELSE \E r \in execute_query(Parsed[q], 1, CopyDf(data_store[cookies[c]].kql_engine)) :
               Reply(c, "/kql/query", "", IF r.ok THEN 200 ELSE 500, r.err)
    /\ UNCHANGED data_store
    /\ UNCHANGED Kept

\* the group_by of the requests to /aggregate, which name no aggregations
GroupBys == {<<>>, <<"status">>}

\* DataProcessor.aggregate_data(group_by, {}): the mean of every numeric
\* column, per group.  The columns grouped by hold text in the tables of the
\* model, also when a table has no row left to read that off.
ProcessorAggregate(df, group_by) ==
    LET missing == {k \in 1..Len(group_by) : Positions(df.cols, group_by[k]) = <<>>}
        grouped(a) == a.src \notin SeqToSet(group_by)
    IN  IF group_by = <<>> THEN Raise("No group keys passed!")
        ELSE IF missing # {} THEN Raise(KeyError(group_by[Least(missing)]))
        ELSE GroupAgg(df, group_by, SelectSeq(NumericAggs(df, 1), grouped))

\* POST /aggregate: lines 298-328
aggregate_data(c, group_by) ==
    /\ IF ~Stored(c) THEN
           Reply(c, "/aggregate", "", 400, NoData) /\ UNCHANGED data_store
       ELSE
           LET data_info == data_store[cookies[c]]
               aggregated == ProcessorAggregate(data_info.processor, group_by)
           IN  IF ~aggregated.ok THEN
                   Reply(c, "/aggregate", "", 500, aggregated.err) /\ UNCHANGED data_store
               ELSE
                   /\ data_store' = [data_store EXCEPT
                                        ![cookies[c]] = Session(aggregated.df, data_info.file_path)]
                   /\ Reply(c, "/aggregate", "", 200, "")
    /\ UNCHANGED Kept

\* the conditions of the requests to /filter, all with the operator greater_than
FilterConditions ==
    {<<>>,
     <<[column |-> "value", value |-> IntV(100)]>>,
     <<[column |-> "zz", value |-> IntV(1)]>>}

\* the loop of DataProcessor.filter_data over conditions[k..]: the mask, or
\* the exception; a condition on a column the table lacks is passed over
RECURSIVE FilterMask(_, _, _, _)
FilterMask(df, conditions, k, mask) ==
    IF k > Len(conditions) THEN [ok |-> TRUE, mask |-> mask, err |-> ""]
    ELSE IF Positions(df.cols, conditions[k].column) = <<>> THEN
        FilterMask(df, conditions, k + 1, mask)
    ELSE
        LET t == ColumnTest(df, conditions[k].column, ">", conditions[k].value)
        IN  IF ~t.ok THEN [ok |-> FALSE, mask |-> mask, err |-> t.err]
            ELSE FilterMask(df, conditions, k + 1, AndMask(mask, df.idx, t.vals))

\* DataProcessor.filter_data(conditions)
ProcessorFilter(df, conditions) ==
    LET n == NRows(df)
        m == FilterMask(df, conditions, 1,
                        [labels |-> RangeIndex(n), vals |-> [k \in 1..n |-> TRUE]])
    IN  IF m.ok THEN SelectMask(df, m.mask) ELSE Raise(m.err)

\* POST /filter: lines 330-360
filter_data(c, conditions) ==
    /\ IF ~Stored(c) THEN
           Reply(c, "/filter", "", 400, NoData) /\ UNCHANGED data_store
       ELSE
           LET data_info == data_store[cookies[c]]
               filtered == ProcessorFilter(data_info.processor, conditions)
           IN  IF ~filtered.ok THEN
                   Reply(c, "/filter", "", 500, filtered.err) /\ UNCHANGED data_store
               ELSE
                   /\ data_store' = [data_store EXCEPT
                                        ![cookies[c]] = Session(filtered.df, data_info.file_path)]
                   /\ Reply(c, "/filter", "", 200, "")
    /\ UNCHANGED Kept

\* POST /session/clear: lines 362-379
clear_session(c) ==
    /\ data_store' = IF Stored(c)
                      THEN [s \in DOMAIN data_store \ {cookies[c]} |-> data_store[s]]
                      ELSE data_store
    /\ cookies' = [cookies EXCEPT ![c] = ""]
    /\ Reply(c, "/session/clear", "", 200, "")
    /\ UNCHANGED <<self_df, pc, query, operations, i, result, returned, error, last, ties, now>>

\* a second passes
Tick ==
    /\ now < MaxClock
    /\ now' = now + 1
    /\ UNCHANGED <<self_df, pc, query, operations, i, result, returned, error, last, ties,
                   data_store, cookies, response>>

\* the application starts; no engine call is under way
AppInit ==
    /\ NoApp
    /\ self_df = NoTable
    /\ pc = "Ready"
    /\ query = ""
    /\ operations = <<>>
    /\ i = 1
    /\ result = NoTable
    /\ returned = Nothing
    /\ error = ""
    /\ last = NoCall
    /\ ties \in {"kept", "reversed"}

AppNext ==
    \/ \E c \in Clients, file \in Files : upload_file(c, file)
    \/ \E c \in Clients : preview_data(c)
    \/ \E c \in Clients : get_statistics(c)
    \/ \E c \in Clients, remove_duplicates \in BOOLEAN : clean_data(c, remove_duplicates)
    \/ \E c \in Clients, q \in KqlQueries : execute_kql_query(c, q)
    \/ \E c \in Clients, group_by \in GroupBys : aggregate_data(c, group_by)
    \/ \E c \in Clients, conditions \in FilterConditions : filter_data(c, conditions)
    \/ \E c \in Clients : clear_session(c)
    \/ Tick

AppSpec == AppInit /\ [][AppNext]_vars

(***************************************************************************)
(* The properties.                                                         *)
(***************************************************************************)
Ended == pc \in {"Succeeded", "Failed"}

\* the positions of the operations whose name is not registered
Unregistered(ops) == {k \in 1..Len(ops) : ops[k].function \notin Functions}

\* the messages of the exceptions the stage can raise on the table
Causes(operation, df) == {r.err : r \in {x \in StageResults(operation, df) : ~x.ok}}

\* the tables the stage can produce from the table
Produced(operation, df) == {r.df : r \in {x \in StageResults(operation, df) : x.ok}}

\* C1, as stated: every call of a query that has a stage keyword which is not
\* registered ends Failed, returns no table and reports an "Unknown function"
\* error, whatever stages precede that keyword.
C1_UnknownStageReported ==
    (Ended /\ Unregistered(operations) # {}) =>
        /\ pc = "Failed"
        /\ ~returned.has
        /\ Contains(error, "Unknown function: ")

\* C1, amended: every call of a query that has a stage keyword which is not
\* registered ends Failed and returns no table; the call stops at the first
\* such keyword with the error "Unknown function: <keyword>" (wrapped) when
\* every stage before it ran, and otherwise stops at the first stage that
\* raised, with that stage's error.
C1_UnknownStageAtomic ==
    (Ended /\ Unregistered(operations) # {}) =>
        LET u == Least(Unregistered(operations)) IN
        /\ pc = "Failed"
        /\ ~returned.has
        /\ i <= u
        /\ (i = u) => (error = Wrap(UnknownFunction(operations[u].function)))
        /\ (i < u) => (error \in {Wrap(c) : c \in Causes(operations[i], result)})

\* two registered stages ran, and the third keyword is not registered
C1_UnknownAfterValidStages ==
    /\ pc = "Failed"
    /\ i = 3
    /\ Len(operations) = 3
    /\ Unregistered(operations) = {3}
    /\ error = Wrap(UnknownFunction("bogus"))
    /\ ~returned.has

\* C2, as stated: a query whose first segment is the table name runs its
\* other stages on the stored table: the call never fails on the table name as
\* an unknown function, and "Data | project a, c" on the columns a, b, c
\* returns the columns a, c.
C2_TableNameSegment ==
    (Ended /\ StartsWith(query, TableName \o " | ")) =>
        /\ ~(pc = "Failed" /\ error = Wrap(UnknownFunction(Lower(TableName))))
        /\ (query = "Data | project a, c" /\ self_df.cols = <<"a", "b", "c">>) =>
               (pc = "Succeeded" /\ returned.df.cols = <<"a", "c">>)

\* what C3 says of one step of a call
C3_Step ==
    /\ pc' \in {"Running", "Succeeded", "Failed"}
    /\ (pc # "Running" /\ pc' = "Running") =>
           (i' = 1 /\ result' = self_df /\ operations' = Parsed[query'])
    /\ (pc = "Running") =>
           /\ i <= Len(operations) + 1
           /\ (i <= Len(operations) /\ operations[i].function \in Functions) =>
                  (StageResults(operations[i], result) # {})
           /\ operations' = operations
           /\ query' = query
           /\ (pc' = "Running") =>
                  /\ i <= Len(operations)
                  /\ i' = i + 1
                  /\ operations[i].function \in Functions
                  /\ result' \in Produced(operations[i], result)
           /\ (pc' = "Succeeded") =>
                  /\ i > Len(operations)
                  /\ returned' = [has |-> TRUE, df |-> result]
                  /\ error' = ""
           /\ (pc' = "Failed") =>
                  /\ i <= Len(operations)
                  /\ i' = i
                  /\ ~returned'.has
                  /\ error' \in {Wrap(c) :
                        c \in IF operations[i].function \in Functions
                              THEN Causes(operations[i], result)
                              ELSE {UnknownFunction(operations[i].function)}}
           /\ (/\ i <= Len(operations)
               /\ operations[i].function \in Functions
               /\ Produced(operations[i], result) = {}) => (pc' = "Failed")
    /\ (pc \in {"Succeeded", "Failed"}) => (pc' = "Running")

\* C3: the stages run in the order of the pipeline, one position at a time,
\* each on the table the stage before it produced and the first on a copy
\* of the stored table; a stage that is called produces a table or raises,
\* and every step of a call moves one position on or ends the call, Succeeded
\* with the table of the last stage once all stages ran, or Failed; a stage
\* that raises ends the call Failed at its position with the error
\* "Query execution error: " followed by the cause, and nothing runs after
\* that but a new call.
C3_Executor == [][C3_Step]_vars

\* a stage raised after two stages ran
C3_ThirdStageRaised ==
    /\ pc = "Failed"
    /\ i = 3
    /\ operations[3].function \in Functions
    /\ error \in {Wrap(c) : c \in Causes(operations[3], result)}
    /\ result # self_df

\* C4, as stated: a call that fails on a keyword which is not registered
\* carries the message "Unknown function: <keyword>", and a call that fails
\* inside a registered stage carries "Query execution error: <cause>".
C4_MessageForms ==
    (pc = "Failed") =>
        IF operations[i].function \in Functions
        THEN StartsWith(error, "Query execution error: ")
        ELSE error = UnknownFunction(operations[i].function)

\* C5: no step of any call, succeeding or failing, changes the stored table:
\* it stays the table the engine was constructed on.
C5_StoredTableUnchanged == [][self_df' = self_df]_vars

\* a call returned a table that differs from the stored one, after a call
\* that did the same
C5_CallsLeaveStored ==
    /\ pc = "Succeeded"
    /\ returned.has
    /\ returned.df # self_df
    /\ last.outcome.pc = "Succeeded"

NoSample(ops) == \A k \in 1..Len(ops) : ops[k].function # "sample"

\* C6: a query without a sample stage called twice in a row on one engine has
\* the same outcome both times: the same error, or the same table (columns,
\* row labels, rows, in the same order).
C6_Idempotent ==
    (Ended /\ last.query = query /\ NoSample(operations)) => (Outcome = last.outcome)

\* a pipeline of two stages returned, the second time, the table it
\* returned the first time, which is not the stored one
C6_RepeatedCall ==
    /\ pc = "Succeeded"
    /\ last.query = query
    /\ NoSample(operations)
    /\ Len(operations) >= 2
    /\ last.outcome = Outcome
    /\ returned.df # self_df

\* the where queries of one stage, which between them use the nine operators
WhereQueries ==
    {"where status = success",
     "where value > 100",
     "where value >= 100 and id != 3",
     "where value > 100 and status contains SUCC",
     "where status startswith s and status endswith s",
     "where id < 3 and value <= 120"}

\* what the conditions of the where query q ask of a row (id, status, value)
Satisfies(q, row) ==
    IF q = "where status = success" THEN row[2].v = "success"
    ELSE IF q = "where value > 100" THEN row[3].v > 100
    ELSE IF q = "where value >= 100 and id != 3" THEN row[3].v >= 100 /\ row[1].v # 3
    ELSE IF q = "where value > 100 and status contains SUCC"
        THEN row[3].v > 100 /\ Contains(Lower(row[2].v), "succ")
    ELSE IF q = "where status startswith s and status endswith s"
        THEN StartsWith(row[2].v, "s") /\ EndsWith(row[2].v, "s")
    ELSE row[1].v < 3 /\ row[3].v <= 120

\* C7, as stated: a where stage sent through execute_query, with any of the
\* nine operators and any conjunction of them, returns the rows of its input
\* that satisfy all its conditions, in their order, and no others.
C7_WhereSound ==
    (Ended /\ query \in WhereQueries /\ self_df.cols = <<"id", "status", "value">>) =>
        LET Keep(row) == Satisfies(query, row) IN
        /\ pc = "Succeeded"
        /\ returned.df.cols = self_df.cols
        /\ returned.df.rows = SelectSeq(self_df.rows, Keep)
        /\ NRows(returned.df) <= NRows(self_df)

\* C8, as stated: on the three rows (1, success, 120), (2, fail, 80),
\* (3, success, 200) the query "Data | where status = success | summarize
\* total=sum(value) by status" returns the one row (status success, total 320).
C8_ScenarioTotal ==
    (/\ Ended
     /\ query = "Data | where status = success | summarize total=sum(value) by status"
     /\ self_df = Events) =>
        /\ pc = "Succeeded"
        /\ returned.df.cols = <<"status", "total">>
        /\ returned.df.rows = << <<StrV("success"), IntV(320)>> >>

RECURSIVE SumInts(_)
SumInts(cells) == IF cells = <<>> THEN 0 ELSE Head(cells).v + SumInts(Tail(cells))

\* C9, as stated: "summarize cnt=count(v) by g" returns one row for each
\* value of g in its input, ascending by g, with the counts in cnt adding up
\* to the number of rows of the input.
C9_CountByGroup ==
    (/\ Ended
     /\ query = "summarize cnt=count(v) by g"
     /\ Positions(self_df.cols, "g") # <<>>
     /\ Positions(self_df.cols, "v") # <<>>) =>
        /\ pc = "Succeeded"
        /\ returned.df.cols = <<"g", "cnt">>
        /\ LET gs == Column(returned.df, "g")
               cnt == Column(returned.df, "cnt")
           IN  /\ SeqToSet(gs) = SeqToSet(Column(self_df, "g"))
               /\ \A k \in 1..(Len(gs) - 1) : ValLess(gs[k], gs[k + 1])
               /\ SumInts(cnt) = NRows(self_df)

\* what C10 says of the step of a project stage
C10_Step ==
    (/\ pc = "Running"
     /\ pc' = "Running"
     /\ operations[i].function = "project"
     /\ operations[i].args # <<>>
     /\ ~HasDuplicates(result.cols)) =>
        LET \* the names listed, those of a parenthesized list among them
            requested == Flatten(operations[i].args)
            Exists(name) == name.t = "str" /\ name.v \in SeqToSet(result.cols)
            kept == SelectSeq(requested, Exists)
            At(name) == CHOOSE k \in 1..Len(result.cols) : result.cols[k] = name
        IN  IF kept = <<>> THEN result' = result
            ELSE /\ result'.cols = [k \in 1..Len(kept) |-> kept[k].v]
                 /\ result'.idx = result.idx
                 /\ NRows(result') = NRows(result)
                 /\ \A r \in 1..NRows(result) : \A k \in 1..Len(kept) :
                        result'.rows[r][k] = result.rows[r][At(kept[k].v)]

\* C10: project with a list of names, on a table whose column names differ
\* from each other, produces the columns that are requested and exist, in the
\* order listed, with every row kept; the names that do not exist are dropped
\* without an error, and the input is passed on unchanged when none exists.
C10_ProjectExact == [][C10_Step]_vars

\* "project value, zz, id" returned the three rows with the columns value, id
C10_ProjectedInOrder ==
    /\ pc = "Succeeded"
    /\ query = "project value, zz, id"
    /\ self_df = Events
    /\ returned.df.cols = <<"value", "id">>
    /\ returned.df.rows = << <<IntV(120), IntV(1)>>, <<IntV(80), IntV(2)>>, <<IntV(200), IntV(3)>> >>

\* C11, as stated: "take n" with an integer n returns the first min(n, rows)
\* rows of its input, in input order with their values; "take" with no
\* argument returns its input.
C11_TakePrefix ==
    (/\ Ended
     /\ Len(operations) = 1
     /\ operations[1].function = "take"
     /\ operations[1].kwargs = EmptyDict
     /\ \A k \in 1..Len(operations[1].args) : operations[1].args[k].t = "int") =>
        /\ pc = "Succeeded"
        /\ IF operations[1].args = <<>> THEN returned.df = self_df
           ELSE LET m == Max(0, Min(operations[1].args[1].v, NRows(self_df)))
                IN  /\ returned.df.cols = self_df.cols
                    /\ returned.df.rows = SubSeq(self_df.rows, 1, m)

Occurrences(q, x) == Cardinality({k \in 1..Len(q) : q[k] = x})

\* the two sequences hold the same elements, each as many times
Permutation(a, b) ==
    /\ Len(a) = Len(b)
    /\ \A x \in SeqToSet(a) : Occurrences(a, x) = Occurrences(b, x)

\* C12, as stated: "sort by x", alone or after the table name, returns the
\* rows of its input rearranged so that x never decreases from one row to the
\* next; on x = 5, 1, 3, 2, 4 it returns x = 1, 2, 3, 4, 5.
C12_SortByAscending ==
    (/\ Ended
     /\ query \in {"Data | sort by x", "sort by x"}
     /\ self_df.cols = <<"x">>) =>
        /\ pc = "Succeeded"
        /\ Permutation(returned.df.rows, self_df.rows)
        /\ \A r \in 1..(NRows(returned.df) - 1) :
              ~CellLess(returned.df.rows[r + 1][1], returned.df.rows[r][1])
        /\ self_df = Numbers => Column(returned.df, "x") = <<IntV(1), IntV(2), IntV(3), IntV(4), IntV(5)>>

\* the cells of the row under the listed column names of the table
RowKey(df, row, columns) ==
    [k \in 1..Len(columns) |-> row[Positions(df.cols, columns[k].v)[1]]]

\* C13, as stated: a sort stage with column names returns the rows of its
\* input ordered lexicographically by those columns, ascending unless
\* order=desc is given in any letter case, and the rows that are equal on all
\* the listed columns keep the order they had in the input; a sort stage with
\* no argument returns the rows in the order of their row labels.
C13_SortStable ==
    (/\ pc = "Succeeded"
     /\ operations[1].function = "sort"
     /\ operations[1].args # <<>>
     /\ \A k \in 2..Len(operations) : operations[k] = [function |-> "sort", args |-> <<>>, kwargs |-> EmptyDict]) =>
        LET columns == operations[1].args
            ascending == ~("order" \in DOMAIN operations[1].kwargs
                           /\ Lower(operations[1].kwargs["order"].v) = "desc")
            out == returned.df
            key(r) == RowKey(self_df, out.rows[r], columns)
        IN  /\ out.cols = self_df.cols
            /\ Permutation(out.idx, self_df.idx)
            /\ \A r \in 1..NRows(out) : \E q \in 1..NRows(self_df) :
                  self_df.idx[q] = out.idx[r] /\ self_df.rows[q] = out.rows[r]
            /\ IF Len(operations) = 1
               THEN \A r \in 1..(NRows(out) - 1) :
                        /\ ~KeyBefore(key(r + 1), key(r), ascending)
                        /\ ~KeyBefore(key(r), key(r + 1), ascending) => out.idx[r] < out.idx[r + 1]
               ELSE out = self_df

\* what C14 says of the step of a distinct stage
C14_Step ==
    (/\ pc = "Running"
     /\ i <= Len(operations)
     /\ operations[i].function = "distinct"
     /\ \A k \in 1..Len(operations[i].args) : InColumns(result, operations[i].args[k])
     /\ ~HasDuplicates(result.cols)
     /\ ~HasDuplicates(result.idx)
     /\ i' # i) =>
        LET names == IF operations[i].args = <<>> THEN [k \in 1..Len(result.cols) |-> StrV(result.cols[k])]
                     ELSE operations[i].args
            key(df, r) == RowKey(result, df.rows[r], names)
            at(r) == CHOOSE q \in 1..NRows(result) : result.idx[q] = result'.idx[r]
        IN  /\ result'.cols = result.cols
            /\ \A r \in 1..NRows(result') :
                  /\ result'.idx[r] \in SeqToSet(result.idx)
                  /\ result'.rows[r] = result.rows[at(r)]
                  /\ \A q \in 1..(at(r) - 1) : key(result, q) # key(result, at(r))
            /\ \A r, q \in 1..NRows(result') : r < q =>
                  /\ at(r) < at(q)
                  /\ key(result', r) # key(result', q)
            /\ \A q \in 1..NRows(result) : \E r \in 1..NRows(result') : key(result', r) = key(result, q)

\* C14: a distinct stage that ran on a table with the listed columns (all the
\* columns when none is listed) returns one row for each combination of
\* values of those columns in its input, with all the columns of the input:
\* the first row of the input that has the combination, and the rows in the
\* order they had in the input.
C14_DistinctFirst == [][C14_Step]_vars

\* "distinct a, c" dropped the fourth of four rows, which repeats the first
C14_DistinctDropped ==
    /\ pc = "Succeeded"
    /\ query = "distinct a, c"
    /\ NRows(self_df) = 4
    /\ self_df.rows[4] = self_df.rows[1]
    /\ returned.df.idx = <<0, 1, 2>>

\* C15, as stated: "top 2 x", alone or after the table name, returns the two
\* rows with the largest x, largest first: on x = 5, 1, 3, 2, 4 the rows
\* x = 5, 4; in general the rows are min(2, rows) rows of the input and no
\* row left out has a larger x than a row returned.
C15_TopLargest ==
    (/\ Ended
     /\ query \in {"Data | top 2 x", "top 2 x"}
     /\ self_df.cols = <<"x">>) =>
        /\ pc = "Succeeded"
        /\ NRows(returned.df) = Min(2, NRows(self_df))
        /\ \A r \in 1..NRows(returned.df) : returned.df.rows[r] \in SeqToSet(self_df.rows)
        /\ \A r \in 1..(NRows(returned.df) - 1) :
              ~CellLess(returned.df.rows[r][1], returned.df.rows[r + 1][1])
        /\ \A q \in 1..NRows(self_df) :
              \/ self_df.rows[q] \in SeqToSet(returned.df.rows)
              \/ \A r \in 1..NRows(returned.df) : ~CellLess(returned.df.rows[r][1], self_df.rows[q][1])
        /\ self_df = Numbers => Column(returned.df, "x") = <<IntV(5), IntV(4)>>

\* the queries of one where, summarize or top stage that names the column zz
AbsentColumnQueries ==
    {"where zz = 1", "where zz > 1 | frobnicate", "summarize t=sum(zz) by g", "top 2, zz"}

\* C16, as stated: a call whose where, summarize or top stage names a column
\* that its input table does not have ends Failed, with the wrapped error and
\* no table returned.
C16_AbsentColumnAborts ==
    (/\ Ended
     /\ query \in AbsentColumnQueries
     /\ ~InColumns(self_df, StrV("zz"))) =>
        /\ pc = "Failed"
        /\ ~returned.has
        /\ StartsWith(error, "Query execution error: ")

\* C17, as stated: "extend s=a+b", alone or after the table name, returns
\* its input with the column s added after the columns a and b, holding in
\* each row the sum of the row's a and b; on a = 1, 2, 3 and b = 4, 5, 6 it
\* returns s = 5, 7, 9.
C17_ExtendAdds ==
    (/\ Ended
     /\ query \in {"Data | extend s=a+b", "extend s=a+b"}
     /\ self_df.cols = <<"a", "b">>) =>
        /\ pc = "Succeeded"
        /\ returned.df.cols = <<"a", "b", "s">>
        /\ NRows(returned.df) = NRows(self_df)
        /\ \A r \in 1..NRows(self_df) :
              returned.df.rows[r] = self_df.rows[r] \o <<IntV(self_df.rows[r][1].v + self_df.rows[r][2].v)>>
        /\ self_df = Pairs => Column(returned.df, "s") = <<IntV(5), IntV(7), IntV(9)>>

\* C18, as stated: a call of one extend stage, whatever its arguments, ends
\* Succeeded and returns a table that has every row of the input and, as its
\* first columns, the columns of the input with their names and values.
C18_ExtendTotal ==
    (/\ Ended
     /\ Len(operations) = 1
     /\ operations[1].function = "extend") =>
        /\ pc = "Succeeded"
        /\ Len(returned.df.cols) >= Len(self_df.cols)
        /\ SubSeq(returned.df.cols, 1, Len(self_df.cols)) = self_df.cols
        /\ returned.df.idx = self_df.idx
        /\ \A r \in 1..NRows(self_df) :
              SubSeq(returned.df.rows[r], 1, Len(self_df.cols)) = self_df.rows[r]

\* C19, as stated: a call of one make_list stage with a column name returns
\* a table of exactly one row and the one column "<column>_list", whose cell
\* is the list of the values of that column of the input in row order.
C19_MakeListOneRow ==
    (/\ Ended
     /\ Len(operations) = 1
     /\ operations[1].function = "make_list"
     /\ Len(operations[1].args) = 1
     /\ operations[1].args[1].t = "str") =>
        /\ pc = "Succeeded"
        /\ returned.df.cols = <<operations[1].args[1].v \o "_list">>
        /\ NRows(returned.df) = 1
        /\ InColumns(self_df, operations[1].args[1]) =>
              returned.df.rows[1][1] = ListV(Column(self_df, operations[1].args[1].v))

\* what the amended C19 says of the step of a make_list stage
C19_Step ==
    (/\ pc = "Running"
     /\ i <= Len(operations)
     /\ operations[i].function = "make_list"
     /\ Len(operations[i].args) >= 1
     /\ operations[i].args[1].t = "str"
     /\ ~HasDuplicates(result.cols)) =>
        LET column == operations[i].args[1]
        IN  /\ i' = i + 1
            /\ IF InColumns(result, column)
               THEN LET p == CHOOSE k \in 1..Len(result.cols) : result.cols[k] = column.v
                    IN  /\ result'.cols = <<column.v \o "_list">>
                        /\ NRows(result') = 1
                        /\ result'.rows[1][1].t = "list"
                        /\ Len(result'.rows[1][1].v) = NRows(result)
                        /\ \A r \in 1..NRows(result) : result'.rows[1][1].v[r] = result.rows[r][p]
               ELSE result' = result

\* C19, amended: a make_list stage with a column name that its input table
\* has returns a table of exactly one row and the one column "<column>_list",
\* whose cell is the list of the values of that column of the input in row
\* order (the empty list for a table with no row); with a column name that
\* its input table does not have it returns its input unchanged.
C19_MakeListCollapses == [][C19_Step]_vars

\* "make_list x" collapsed the five rows x = 5, 1, 3, 2, 4 into one list
C19_FiveCollapsed ==
    /\ pc = "Succeeded"
    /\ query = "make_list x"
    /\ self_df = Numbers
    /\ returned.df.cols = <<"x_list">>
    /\ returned.df.rows = << <<ListV(<<IntV(5), IntV(1), IntV(3), IntV(2), IntV(4)>>)>> >>

\* the number of rows that the rows of the table before row r expand to
RECURSIVE RowsBefore(_, _, _, _)
RowsBefore(Elems(_), df, p, r) ==
    IF r <= 1 THEN 0
    ELSE RowsBefore(Elems, df, p, r - 1) + Len(Elems(df.rows[r - 1][p]))

\* the step of an mv_expand stage, each cell of the column standing for the
\* sequence Elems(cell) of cells that take its place in as many rows
MvExpandStep(Elems(_)) ==
    (/\ pc = "Running"
     /\ i <= Len(operations)
     /\ operations[i].function = "mv_expand"
     /\ Len(operations[i].args) >= 1
     /\ operations[i].args[1].t = "str"
     /\ ~HasDuplicates(result.cols)) =>
        LET column == operations[i].args[1]
            p == CHOOSE k \in 1..Len(result.cols) : result.cols[k] = column.v
        IN  /\ i' = i + 1
            /\ IF /\ InColumns(result, column)
                  /\ \E r \in 1..NRows(result) : result.rows[r][p].t = "list"
               THEN /\ result'.cols = result.cols
                    /\ NRows(result') = RowsBefore(Elems, result, p, NRows(result) + 1)
                    /\ \A r \in 1..NRows(result) :
                          LET elems == Elems(result.rows[r][p])
                              before == RowsBefore(Elems, result, p, r)
                          IN  \A k \in 1..Len(elems) :
                                 /\ before + k <= NRows(result')
                                 /\ result'.rows[before + k] = [result.rows[r] EXCEPT ![p] = elems[k]]
               ELSE result' = result

\* a list cell stands for its elements, another cell for itself
ElementsOf(cell) == IF cell.t = "list" THEN cell.v ELSE <<cell>>

\* a list cell stands for its elements, the empty list for one null, another
\* cell for itself
ElementsOrNull(cell) == IF cell = ListV(<<>>) THEN <<NullV>> ELSE ElementsOf(cell)

\* C20, as stated: an mv_expand stage returns its input unchanged when no
\* row holds a list in the column; otherwise each row whose cell is a list of
\* k elements is replaced, where it stands and in element order, by k rows
\* with one element each and the row's other values, and each other row is
\* passed on as it is.
C20_OneRowPerElement == [][MvExpandStep(ElementsOf)]_vars

\* C20, amended: as stated for the lists of one element or more; a row whose
\* cell is the empty list is replaced by one row with null in the column and
\* the row's other values.
C20_EmptyListKept == [][MvExpandStep(ElementsOrNull)]_vars

\* "mv_expand tags" turned the rows (1, [p, q]), (2, r), (3, []) into four
\* rows, the last one (3, null)
C20_ExpandedWithNull ==
    /\ pc = "Succeeded"
    /\ query = "mv_expand tags"
    /\ self_df = Lists
    /\ returned.df.rows = << <<IntV(1), StrV("p")>>, <<IntV(1), StrV("q")>>,
                             <<IntV(2), StrV("r")>>, <<IntV(3), NullV>> >>

\* what C21 says of the step of a sample stage
C21_Step ==
    (/\ pc = "Running"
     /\ i <= Len(operations)
     /\ operations[i].function = "sample"
     /\ operations[i].kwargs = EmptyDict
     /\ operations[i].args # <<>> => operations[i].args[1].t = "int" /\ operations[i].args[1].v >= 0
     /\ ~HasDuplicates(result.idx)) =>
        /\ i' = i + 1
        /\ result'.cols = result.cols
        /\ IF operations[i].args # <<>>
           THEN NRows(result') = Min(operations[i].args[1].v, NRows(result))
           ELSE /\ 10 * NRows(result') - NRows(result) <= 5
                /\ NRows(result) - 10 * NRows(result') <= 5
        /\ ~HasDuplicates(result'.idx)
        /\ \A r \in 1..NRows(result') : \E q \in 1..NRows(result) :
              result.idx[q] = result'.idx[r] /\ result.rows[q] = result'.rows[r]

\* C21: a sample stage with a count n >= 0 returns, whatever the draw,
\* min(n, rows) rows of its input, each row of the input at most once; a
\* sample stage with no argument returns a tenth of the rows, rounded, under
\* the same condition.
C21_SampleSubset == [][C21_Step]_vars

\* "sample 2" drew the third row and then the first
C21_DrewTwo ==
    /\ pc = "Succeeded"
    /\ query = "sample 2"
    /\ NRows(self_df) >= 3
    /\ returned.df.idx = <<2, 0>>
    /\ returned.df.rows = <<self_df.rows[3], self_df.rows[1]>>

\* C22, as stated: when the column names of the stored table differ from each
\* other, so do the column names of the table every stage of every call
\* produces, and of the table the call returns.
C22_UniqueNames ==
    ~HasDuplicates(self_df.cols) =>
        /\ ~HasDuplicates(result.cols)
        /\ returned.has => ~HasDuplicates(returned.df.cols)

\* the pieces of the query text between the '|', trimmed, the empty ones
\* left out
StageTexts(q) ==
    LET pieces == Split(q, "|")
        NonEmpty(piece) == piece # ""
    IN  SelectSeq([k \in 1..Len(pieces) |-> Strip(pieces[k])], NonEmpty)

\* C23, as stated: the operations of a call are one for each non-empty piece
\* of the query text between the '|', in the same order; the function of each
\* is the leading run of letters, digits and '_' of its piece in lower case,
\* whether registered or not, and its arguments are those parsed from the
\* rest of the piece, trimmed.
C23_OneOperationPerStageText ==
    pc # "Ready" =>
        LET texts == StageTexts(query)
        IN  /\ Len(operations) = Len(texts)
            /\ \A k \in 1..Len(texts) :
                  LET n == WordLen(texts[k])
                      parsed == _parse_arguments(Strip(SubSeq(texts[k], n + 1, Len(texts[k]))))
                  IN  /\ operations[k].function = Lower(SubSeq(texts[k], 1, n))
                      /\ operations[k].args = parsed.args
                      /\ operations[k].kwargs = parsed.kwargs

\* the arguments args and kwargs are those the claim C24 describes for the
\* argument string s
ArgsConform(s, args, kwargs) ==
    LET open(k) == Cardinality({j \in 1..k : Char(s, j) = "("})
        closed(k) == Cardinality({j \in 1..k : Char(s, j) = ")"})
        cuts == {k \in 1..Len(s) : Char(s, k) = "," /\ open(k) = closed(k)}
        n == Cardinality(cuts)
        cut(j) == IF j = 0 THEN 0
                  ELSE IF j = n + 1 THEN Len(s) + 1
                  ELSE CHOOSE c \in cuts : Cardinality({d \in cuts : d <= c}) = j
        piece(j) == SubSeq(s, cut(j - 1) + 1, cut(j) - 1)
        count == IF piece(n + 1) = "" THEN n ELSE n + 1
        tok(j) == Strip(piece(j))
        named == {j \in 1..count : Contains(tok(j), "=")}
        positional == (1..count) \ named
        key(j) == Strip(SubSeq(tok(j), 1, Find(tok(j), "=") - 1))
        val(j) == Strip(SubSeq(tok(j), Find(tok(j), "=") + 1, Len(tok(j))))
    IN  /\ Len(args) = Cardinality(positional)
        /\ \A j \in positional :
              args[Cardinality({m \in positional : m <= j})] = _parse_value(tok(j))
        /\ DOMAIN kwargs = {key(j) : j \in named}
        /\ \A j \in named :
              (\A m \in named : m > j => key(m) # key(j)) => kwargs[key(j)] = _parse_value(val(j))

\* C24: the arguments of every operation of a call are parsed from its
\* argument string so: the string is cut at the commas that have as many '('
\* as ')' before them, quotes or not, each piece trimmed is a token (no token
\* after a comma that ends the string); the tokens without '=' are the
\* positional arguments, in their order; a token with '=' is a named argument,
\* its key the text before the first '=' and its value the text after it, the
\* last token of a key giving the value.
C24_TokensAndKinds ==
    pc # "Ready" =>
        LET strings == ArgStrings(query)
        IN  /\ Len(strings) = Len(operations)
            /\ \A k \in 1..Len(operations) :
                  ArgsConform(strings[k], operations[k].args, operations[k].kwargs)

\* a call parsed "(a, b), 'x,y', k=1, c, k=2": the comma in the parentheses
\* cuts nothing, the comma in the quotes cuts, the named k is 2
C24_ParsedMixed ==
    /\ pc = "Succeeded"
    /\ query = "project (a, b), 'x,y', k=1, c, k=2"
    /\ operations[1].args = <<ListV(<<StrV("a"), StrV("b")>>), StrV("'x"), StrV("y'"), StrV("c")>>
    /\ DOMAIN operations[1].kwargs = {"k"}
    /\ operations[1].kwargs["k"] = IntV(2)

\* the value v is the one the precedence of C25 gives the text: the first of
\* the rules quoted, number, boolean, list that the text matches decides, and
\* the text itself is the value when none does
RECURSIVE Literal(_, _)
Literal(text, v) ==
    LET first == Char(text, 1)
        final == Char(text, Len(text))
        quoted == text # "" /\ first = final /\ first \in {"'", "\""}
        digits == IF first \in {"+", "-"} THEN SubSeq(text, 2, Len(text)) ELSE text
        dot == Find(digits, ".")
        whole == SubSeq(digits, 1, dot - 1)
        frac == SubSeq(digits, dot + 1, Len(digits))
        negative == first = "-"
        integer == dot = 0 /\ digits # "" /\ AllDigits(digits)
        float == dot > 0 /\ AllDigits(whole) /\ AllDigits(frac) /\ whole \o frac # ""
        commas == {k \in 2..(Len(text) - 1) : Char(text, k) = ","}
        edges == commas \cup {1, Len(text)}
        item(k) == Strip(SubSeq(text, Greatest({e \in edges : e < k}) + 1, k - 1))
    IN  IF quoted THEN v = StrV(SubSeq(text, 2, Len(text) - 1))
        ELSE IF integer THEN
            /\ v.t = "int"
            /\ v.v = (IF negative THEN 0 - DigitsValue(digits) ELSE DigitsValue(digits))
        ELSE IF float THEN
            /\ v.t = "float"
            /\ v.v[1] * Pow10(Len(frac)) =
                  v.v[2] * (IF negative THEN 0 - DigitsValue(whole \o frac) ELSE DigitsValue(whole \o frac))
        ELSE IF Lower(text) \in {"true", "false"} THEN v = BoolV(Lower(text) = "true")
        ELSE IF Len(text) >= 1 /\ first = "(" /\ final = ")" THEN
            /\ v.t = "list"
            /\ Len(v.v) = Cardinality(commas) + 1
            /\ \A k \in edges \ {1} :
                  Literal(item(k), v.v[Cardinality({e \in edges : e < k})])
        ELSE v = StrV(text)

\* C25: every positional argument of every operation of a call is the value
\* of its token by the precedence quoted string, number (integer without a
\* '.', float with one), true or false in any letter case, parenthesized list
\* cut at every comma with its items valued the same way, and else the text.
C25_LiteralPrecedence ==
    pc # "Ready" =>
        LET strings == ArgStrings(query)
            Positional(token) == ~Contains(token, "=")
        IN  \A k \in 1..Len(operations) :
               LET tokens == SelectSeq(Tokens(strings[k]), Positional)
               IN  /\ Len(operations[k].args) = Len(tokens)
                   /\ \A j \in 1..Len(tokens) : Literal(tokens[j], operations[k].args[j])

\* a call parsed a list with a number and a nested parenthesis, a quoted
\* string, a negative integer, a float, a boolean and a bare word
C25_ParsedLiterals ==
    /\ pc = "Succeeded"
    /\ query = "project (a, 2, (b, c)), 'q', -3, 1.5, TRUE, c"
    /\ operations[1].args =
          <<ListV(<<StrV("a"), IntV(2), StrV("(b"), StrV("c)")>>),
            StrV("q"), IntV(0 - 3), FloatV(3, 2), BoolV(TRUE), StrV("c")>>

\* the markers of C26 after the bare '=', in the order of their priority
Markers == <<"!=", ">=", "<=", ">", "<", "contains", "startswith", "endswith">>

\* the operator C26 gives a sub-condition: "=" when it has a '=' and none of
\* '!=', '>=', '<=', else the first marker in priority order that it has,
\* "" when it has none
Operator(cond) ==
    LET present == {k \in 1..Len(Markers) : Contains(cond, Markers[k])}
    IN  IF Contains(cond, "=") /\ present \cap {1, 2, 3} = {} THEN "="
        ELSE IF present = {} THEN ""
        ELSE Markers[Least(present)]

\* the sub-conditions of a condition string that have an operator: the
\* operator, the column name left of the marker and the literal right of it
SubConditions(condition) ==
    LET pieces == Split(condition, "and")
        Marked(cond) == Operator(cond) # ""
        conds == SelectSeq([k \in 1..Len(pieces) |-> Strip(pieces[k])], Marked)
    IN  [k \in 1..Len(conds) |->
            LET at == Find(conds[k], Operator(conds[k]))
            IN  [op  |-> Operator(conds[k]),
                 col |-> Strip(SubSeq(conds[k], 1, at - 1)),
                 val |-> _parse_value(Strip(SubSeq(conds[k], at + Len(Operator(conds[k])),
                                                   Len(conds[k]))))]]

\* the row passes the test of the sub-condition
Passes(df, row, c) ==
    LET cell == row[CHOOSE k \in 1..Len(df.cols) : df.cols[k] = c.col]
    IN  IF IsTextOp(c.op) THEN TextTest(c.op, cell, c.val) ELSE CmpCell(c.op, cell, c.val) = "T"

\* the test of the sub-condition can be made on every row of the table
Testable(df, c) ==
    /\ c.col \in SeqToSet(df.cols)
    /\ \A r \in 1..NRows(df) :
          LET cell == df.rows[r][CHOOSE k \in 1..Len(df.cols) : df.cols[k] = c.col]
          IN  IsTextOp(c.op) \/ CmpCell(c.op, cell, c.val) # "E"

\* C26: _where called with a condition string splits it on "and", gives each
\* sub-condition the operator of the priority =, !=, >=, <=, >, <, contains,
\* startswith, endswith, takes the text left of the marker as the column and
\* the literal right of it as the value, and returns the rows that pass every
\* test, in order; it raises when a column so named is not in the table.
C26_OperatorPriority ==
    Ended =>
        LET cs == SubConditions(query)
        IN  IF \A k \in 1..Len(cs) : Testable(self_df, cs[k])
            THEN /\ pc = "Succeeded"
                 /\ returned.df.cols = self_df.cols
                 /\ \A r \in 1..NRows(returned.df) :
                       /\ returned.df.rows[r] = self_df.rows[returned.df.idx[r] + 1]
                       /\ r > 1 => returned.df.idx[r - 1] < returned.df.idx[r]
                 /\ \A r \in 1..NRows(self_df) :
                       (r - 1 \in SeqToSet(returned.df.idx))
                           <=> \A k \in 1..Len(cs) : Passes(self_df, self_df.rows[r], cs[k])
            ELSE pc = "Failed"

\* _where("status != a>=b") kept the three rows: the sub-condition has both
\* '!=' and '>=' and is read as status != 'a>=b'
C26_NeqBeforeGe ==
    /\ pc = "Succeeded"
    /\ query = "status != a>=b"
    /\ NRows(self_df) = 3
    /\ returned.df = self_df

\* the queries of a where stage behind another stage
WhereAfterQueries ==
    {"where value > 100 | where id > 1",
     "take 2 | where value > 100",
     "sort value, order=desc | where value > 100",
     "distinct status | where value > 100"}

\* the row of a table with the columns id, status, value satisfies the
\* predicate of the second stage of the query
SatisfiesSecond(q, row) ==
    IF q = "where value > 100 | where id > 1" THEN row[1].v > 1 ELSE row[3].v > 100

\* C27, as stated: a where stage behind a where, take, sort or distinct stage
\* succeeds and returns the rows of the table that stage produced which
\* satisfy its predicate, in their order; so "where value > 100 | where id > 1"
\* returns what "where value > 100 and id > 1" returns.
C27_WhereAfterStage ==
    (/\ Ended
     /\ query \in WhereAfterQueries
     /\ self_df.cols = <<"id", "status", "value">>) =>
        /\ pc = "Succeeded"
        /\ \E mid \in Produced(operations[1], self_df) :
              LET keep == [r \in 1..NRows(mid) |-> SatisfiesSecond(query, mid.rows[r])]
              IN  returned.df = TakeRows(mid, FilterPos(keep, 1, NRows(mid)))
        /\ query = "where value > 100 | where id > 1" =>
              returned.df \in Produced(Parsed["where value > 100 and id > 1"][1], self_df)

\* the file types the upload endpoint is to accept
UploadTypes == {"csv", "xlsx", "xls", "xlsb", "xltx", "ods", "parquet", "json"}

\* the extension of a file name: what follows its last dot, in lower case
Extension(name) ==
    LET ext == Lower(Suffix(name))
    IN  IF ext = "" THEN "" ELSE SubSeq(ext, 2, Len(ext))

C30_Step(c, file) ==
    (upload_file(c, file) /\ file.present /\ file.filename # "") =>
        IF Extension(file.filename) \in UploadTypes
        THEN LET loaded == process_file(file.filename, file.content)
             IN  /\ ~StartsWith(response'.error, "File type not supported")
                 /\ response'.status = IF loaded.ok THEN 200 ELSE 500
        ELSE /\ response'.status = 400
             /\ StartsWith(response'.error, "File type not supported")
             /\ UNCHANGED <<data_store, cookies>>

\* C30, as stated: an upload of a named file passes the extension check and
\* reaches the loader, whose outcome is the answer, if and only if the
\* extension of the file name, compared without regard to case, is one of
\* csv, xlsx, xls, xlsb, xltx, ods, parquet, json; an upload with any other
\* extension is answered 400 "File type not supported" and creates no session.
C30_SupportedAccepted == [][\A c \in Clients, file \in Files : C30_Step(c, file)]_vars

\* the endpoints that only read a stored session
ReadOnlyRoutes == {"/kql/query", "/preview", "/statistics"}

\* C28, as stated: in every state the engine's table and the processor's
\* table of a stored session are the session's dataframe entry, and a step
\* that answers /kql/query, /preview or /statistics leaves the store as it was.
\* It holds of AppSpec with no state in which a session is stored
\* (C28_SessionStored is not reached), so it says nothing of the handlers.
C28_Step ==
    /\ \A s \in DOMAIN data_store' :
          /\ data_store'[s].kql_engine = data_store'[s].dataframe
          /\ data_store'[s].processor = data_store'[s].dataframe
    /\ response'.route \in ReadOnlyRoutes => data_store' = data_store

C28_StoreConsistent == [][C28_Step]_vars

C28_SessionStored == data_store # <<>>

\* C29, as stated: an upload that is accepted stores its table under a session
\* id no stored session has, and leaves every session stored before as it was.
\* It holds of AppSpec with no upload ever accepted (C29_UploadAccepted is not
\* reached), so it says nothing of the session ids.
C29_Step ==
    (response'.route = "/upload" /\ response'.status = 200 /\ response' # response) =>
        /\ \E s \in DOMAIN data_store' \ DOMAIN data_store :
              \E c \in Clients : cookies'[c] = s
        /\ \A s \in DOMAIN data_store : data_store'[s] = data_store[s]

C29_FreshSessionId == [][C29_Step]_vars

C29_UploadAccepted == response.route = "/upload" /\ response.status = 200

====
